---------------------------- MODULE Spec2Model ----------------------------
(***************************************************************************)
(* Cube-state acquisition and orientation search of the dual-camera        *)
(* Rubik's cube detector (src/main.cpp).                                   *)
(*                                                                         *)
(* A character is a one-character string; a std::string or a               *)
(* std::vector<char> is a sequence of characters.  C++ indices start at 0, *)
(* TLA+ sequences at 1: the index tables below keep the numbers of the     *)
(* source and every access adds 1.                                         *)
(***************************************************************************)
EXTENDS Integers, Sequences, FiniteSets, TLC

VARIABLES
    glob_colors_cam_1,   \* static std::vector<char> glob_colors_cam_1(24)
    glob_colors_cam_2,   \* static std::vector<char> glob_colors_cam_2(24)
    orientation,         \* catalog index handed to the last generateFaceString call (0: none yet)
    cube_state,          \* string returned by the last generateFaceString call (in mode 's'
                         \* also what cube_face_string and face_string receive)
    is_valid,            \* value returned by the last validateCube call
    face_counts,         \* validateCube's std::map<char,int> at its return
    validated,           \* history: validateCube has returned for the current labels
    pc,                  \* position of main() inside mode 's'
    attempt,             \* loop variable of the attempt loop of mode 's'
    success,             \* bool success of mode 's'
    solver_initialized,  \* static bool solver_initialized
    orientations,        \* local vector of solveWithMultipleOrientations
    i,                   \* loop index of solveWithMultipleOrientations (0-based)
    tried,               \* history: catalog indices pre-checked in the current call, in order
    selected,            \* history: catalog index whose state was handed to the engine (0: none)
    engine_calls,        \* history: calls of global_solver->solve in the current call
    solution,            \* value returned by solveWithMultipleOrientations
    lib_checks_centers,  \* whether the linked face::to_cubie rejects misplaced centre letters
    color_lut,           \* static char color_lut[180][256][256], at the cells of Cells
    lut_file,            \* the rules of range.txt in file order, or NoFile
    lut_line,            \* lines of lut_file that load_lut_from_file has read
    lut_pc,              \* position inside load_lut_from_file
    lut_stray,           \* history: index triples outside color_lut's bounds that were written
    lut_locals,          \* color, h_min, ..., v_max of load_lut_from_file's loop body
    points_cam_1,        \* static std::vector<Point> points_cam_1
    points_cam_2,        \* static std::vector<Point> points_cam_2
    global_frame_1,      \* static Mat global_frame_1 (BGR)
    global_frame_2,      \* static Mat global_frame_2 (BGR)
    global_hsv_1,        \* static Mat global_hsv_1
    global_hsv_2,        \* static Mat global_hsv_2
    t1,                  \* position of the thread (or call) running detect_cam_1
    t2,                  \* position of the thread (or call) running detect_cam_2
    k1,                  \* loop index i of detect_cam_1
    k2,                  \* loop index i of detect_cam_2
    scene,               \* the sticker colours in front of the two cameras
    losses,              \* captures of this run that may still leave their frame empty
    mode,                \* the menu choice k of main()
    captures,            \* history: capture attempts begun in the session
    reported,            \* history: the closing message main() has printed
    pos_1,               \* the file pos_1.txt
    pos_2,               \* the file pos_2.txt
    current_click,       \* static int current_click
    current_face,        \* static int current_face
    current_facelet,     \* static int current_facelet
    clicked_points,      \* static std::vector<cv::Point> clicked_points
    written,             \* history: lines the current calibratePosition call has written
    keys,                \* history: 'r' and SPACE keys pressed in this run of the program
    runs,                \* history: runs of the program, this one included
    pos_pc,              \* position of main() inside mode 'c', a detection mode or mode 'a'
    camera_1_points,     \* ArduinoStyleDetection::camera_1_points
    camera_2_points,     \* ArduinoStyleDetection::camera_2_points
    reference_colors,    \* ArduinoStyleDetection::reference_colors
    frame1,              \* cv::Mat frame1 of mode 'a'
    frame2,              \* cv::Mat frame2 of mode 'a'
    ard_cube_state,      \* std::array<char, 54> cube_state of mode 'a'
    result               \* int result of mode 'a' (-1: detectCube not called yet)

vars == << glob_colors_cam_1, glob_colors_cam_2, orientation, cube_state, is_valid,
           face_counts, validated, pc, attempt, success,
           solver_initialized, orientations, i, tried, selected, engine_calls,
           solution, lib_checks_centers,
           color_lut, lut_file, lut_line, lut_pc, lut_stray, lut_locals,
           points_cam_1, points_cam_2, global_frame_1, global_frame_2,
           global_hsv_1, global_hsv_2, t1, t2, k1, k2, scene, losses,
           mode, captures, reported,
           pos_1, pos_2, current_click, current_face, current_facelet,
           clicked_points, written, keys, runs, pos_pc,
           camera_1_points, camera_2_points, reference_colors, frame1, frame2,
           ard_cube_state, result >>

lutVars == << color_lut, lut_file, lut_line, lut_pc, lut_stray, lut_locals >>
camVars == << points_cam_1, points_cam_2, global_frame_1, global_frame_2,
              global_hsv_1, global_hsv_2, t1, t2, k1, k2, scene, losses >>
runVars == << mode, captures, reported >>
posVars == << pos_1, pos_2, current_click, current_face, current_facelet,
              clicked_points, written, keys, runs, pos_pc >>
ardVars == << camera_1_points, camera_2_points, reference_colors, frame1, frame2,
              ard_cube_state, result >>

-----------------------------------------------------------------------------
(* Characters *)

\* the six face letters, in the block order of the 54-character string
FaceLetters == << "U", "R", "F", "D", "L", "B" >>
FaceSet == { "U", "R", "F", "D", "L", "B" }
ColorSet == { "W", "R", "O", "Y", "G", "B" }
\* the value-initialised char ('\0') the label vectors hold before any capture
NUL == "0"
\* every character a label vector can hold in this model
LabelSet == ColorSet \cup { "N", NUL }

Min(S) == CHOOSE x \in S : \A y \in S : x <= y
Max(S) == CHOOSE x \in S : \A y \in S : y <= x

-----------------------------------------------------------------------------
(* colorToFace *)

colorToFace_DefaultUp(color) ==
    CASE color = "R" -> "F"
      [] color = "B" -> "R"
      [] color = "W" -> "U"
      [] color = "O" -> "B"
      [] color = "G" -> "L"
      [] color = "Y" -> "D"
      [] color = "N" -> "N"
      [] OTHER -> "U"

colorToFace(color) ==
    CASE color = "R" -> "F"
      [] color = "B" -> "R"
      [] color = "W" -> "U"
      [] color = "O" -> "B"
      [] color = "G" -> "L"
      [] color = "Y" -> "D"
      [] color = "N" -> "N"
      [] OTHER -> "N"

-----------------------------------------------------------------------------
(* CubeOrientation and the catalog *)

CubeOrientation(up, right, front, down, left, back) ==
    [ cam1_faces |-> << up, right, front >>, cam2_faces |-> << down, left, back >> ]

generateAllOrientations_Repeat ==
    << CubeOrientation("U", "R", "F", "D", "L", "B"),
       CubeOrientation("U", "F", "L", "D", "B", "R"),
       CubeOrientation("U", "L", "B", "D", "R", "F"),
       CubeOrientation("U", "B", "R", "D", "F", "L"),
       CubeOrientation("D", "R", "B", "U", "L", "F"),
       CubeOrientation("D", "B", "L", "U", "F", "R"),
       CubeOrientation("D", "L", "F", "U", "R", "B"),
       CubeOrientation("D", "F", "R", "U", "B", "L"),
       CubeOrientation("R", "U", "F", "L", "B", "D"),
       CubeOrientation("R", "F", "D", "L", "U", "B"),
       CubeOrientation("R", "D", "B", "L", "F", "U"),
       CubeOrientation("R", "B", "U", "L", "D", "F"),
       CubeOrientation("L", "U", "B", "R", "F", "D"),
       CubeOrientation("L", "B", "D", "R", "U", "F"),
       CubeOrientation("L", "D", "F", "R", "B", "U"),
       CubeOrientation("L", "F", "U", "R", "D", "B"),
       CubeOrientation("F", "U", "R", "B", "L", "D"),
       CubeOrientation("F", "R", "D", "B", "U", "L"),
       CubeOrientation("F", "D", "L", "B", "R", "U"),
       CubeOrientation("F", "L", "U", "B", "D", "R"),
       CubeOrientation("B", "U", "L", "F", "R", "D"),
       CubeOrientation("B", "L", "D", "F", "U", "R"),
       CubeOrientation("B", "D", "R", "F", "L", "U"),
       CubeOrientation("B", "D", "R", "F", "L", "U") >>

generateAllOrientations ==
    << CubeOrientation("U", "R", "F", "D", "L", "B"),
       CubeOrientation("U", "F", "L", "D", "B", "R"),
       CubeOrientation("U", "L", "B", "D", "R", "F"),
       CubeOrientation("U", "B", "R", "D", "F", "L"),
       CubeOrientation("D", "R", "B", "U", "L", "F"),
       CubeOrientation("D", "B", "L", "U", "F", "R"),
       CubeOrientation("D", "L", "F", "U", "R", "B"),
       CubeOrientation("D", "F", "R", "U", "B", "L"),
       CubeOrientation("R", "U", "F", "L", "B", "D"),
       CubeOrientation("R", "F", "D", "L", "U", "B"),
       CubeOrientation("R", "D", "B", "L", "F", "U"),
       CubeOrientation("R", "B", "U", "L", "D", "F"),
       CubeOrientation("L", "U", "B", "R", "F", "D"),
       CubeOrientation("L", "B", "D", "R", "U", "F"),
       CubeOrientation("L", "D", "F", "R", "B", "U"),
       CubeOrientation("L", "F", "U", "R", "D", "B"),
       CubeOrientation("F", "U", "R", "B", "L", "D"),
       CubeOrientation("F", "R", "D", "B", "U", "L"),
       CubeOrientation("F", "D", "L", "B", "R", "U"),
       CubeOrientation("F", "L", "U", "B", "D", "R"),
       CubeOrientation("B", "U", "L", "F", "R", "D"),
       CubeOrientation("B", "L", "D", "F", "U", "R"),
       CubeOrientation("B", "D", "R", "F", "L", "U"),
       CubeOrientation("B", "R", "U", "F", "D", "L") >>

\* the orientation of the parameterless overload generateFaceString()
default_orientation == CubeOrientation("U", "R", "F", "D", "L", "B")

-----------------------------------------------------------------------------
(* generateFaceString(const CubeOrientation&) *)

face_indices_FirstEight(face) ==
    CASE face = "U" -> << 0, 1, 2, 3, 4, 5, 6, 7 >>
      [] face = "R" -> << 9, 10, 11, 12, 13, 14, 15, 16 >>
      [] face = "F" -> << 18, 19, 20, 21, 22, 23, 24, 25 >>
      [] face = "D" -> << 27, 28, 29, 30, 31, 32, 33, 34 >>
      [] face = "L" -> << 36, 37, 38, 39, 40, 41, 42, 43 >>
      [] face = "B" -> << 45, 46, 47, 48, 49, 50, 51, 52 >>

face_indices(face) ==
    CASE face = "U" -> << 0, 1, 2, 3, 5, 6, 7, 8 >>
      [] face = "R" -> << 9, 10, 11, 12, 14, 15, 16, 17 >>
      [] face = "F" -> << 18, 19, 20, 21, 23, 24, 25, 26 >>
      [] face = "D" -> << 27, 28, 29, 30, 32, 33, 34, 35 >>
      [] face = "L" -> << 36, 37, 38, 39, 41, 42, 43, 44 >>
      [] face = "B" -> << 45, 46, 47, 48, 50, 51, 52, 53 >>

\* std::string cube_state(54, 'N')
InitialCubeState == [ p \in 1..54 |-> "N" ]

\* The first n iterations (cam_face-major, i-minor) of one camera's double loop.
RECURSIVE MapCamera(_, _, _, _)
MapCamera(state, cam_faces, colors, n) ==
    IF n = 0 THEN state
    ELSE LET prev         == MapCamera(state, cam_faces, colors, n - 1)
             cam_face     == (n - 1) \div 8
             k            == (n - 1) % 8
             target_face  == cam_faces[cam_face + 1]
             indices      == face_indices(target_face)
             global_index == cam_face * 8 + k
         IN  IF global_index < Len(colors)
             THEN [ prev EXCEPT ![indices[k + 1] + 1] = colorToFace(colors[global_index + 1]) ]
             ELSE prev

\* the six assignments "Fill in center pieces based on orientation"
\* the six assignments, every centre taking the letter of camera 1's first slot
FillCenters_FirstSlot(state, o) ==
    [ state EXCEPT ![4 + 1]  = o.cam1_faces[1], ![13 + 1] = o.cam1_faces[1],
                   ![22 + 1] = o.cam1_faces[1], ![31 + 1] = o.cam1_faces[1],
                   ![40 + 1] = o.cam1_faces[1], ![49 + 1] = o.cam1_faces[1] ]

\* the six assignments, every block taking its own letter as its centre
FillCenters_FromBlock(state, o) ==
    [ state EXCEPT ![4 + 1]  = "U", ![13 + 1] = "R", ![22 + 1] = "F",
                   ![31 + 1] = "D", ![40 + 1] = "L", ![49 + 1] = "B" ]

FillCenters(state, o) ==
    [ state EXCEPT ![4 + 1]  = o.cam1_faces[1],
                   ![13 + 1] = o.cam1_faces[2],
                   ![22 + 1] = o.cam1_faces[3],
                   ![31 + 1] = o.cam2_faces[1],
                   ![40 + 1] = o.cam2_faces[2],
                   ![49 + 1] = o.cam2_faces[3] ]

generateFaceString(o, colors_1, colors_2) ==
    LET after_1 == MapCamera(InitialCubeState, o.cam1_faces, colors_1, 24)
        after_2 == MapCamera(after_1, o.cam2_faces, colors_2, 24)
    IN  FillCenters(after_2, o)

-----------------------------------------------------------------------------
(* validateCube *)

\* face_counts[c] after the two counting loops and the six centre increments
CountFaces(colors_1, colors_2) ==
    [ c \in FaceSet \cup { "N" } |->
        Cardinality({ p \in 1..Len(colors_1) : colorToFace(colors_1[p]) = c })
      + Cardinality({ p \in 1..Len(colors_2) : colorToFace(colors_2[p]) = c })
      + (IF c \in FaceSet THEN 1 ELSE 0) ]

validateCube_UnknownOnly(colors_1, colors_2) ==
    LET counts == CountFaces(colors_1, colors_2)
    IN  ~ (counts["N"] > 0)

validateCube(colors_1, colors_2) ==
    LET counts == CountFaces(colors_1, colors_2)
    IN  /\ \A face \in FaceSet : counts[face] = 9
        /\ ~ (counts["N"] > 0)

-----------------------------------------------------------------------------
(* Inputs: the label vectors a capture can leave behind *)

\* number of face turns of the most scrambled cube the inputs are read from
MaxScramble == 2

\* Quarter turns of a face as permutations of the 54 facelets:
\* after the turn, position q holds what position Turn[q] held.
TurnU ==
    <<  7,  4,  1,  8,  5,  2,  9,  6,  3,
       46, 47, 48, 13, 14, 15, 16, 17, 18,
       10, 11, 12, 22, 23, 24, 25, 26, 27,
       28, 29, 30, 31, 32, 33, 34, 35, 36,
       19, 20, 21, 40, 41, 42, 43, 44, 45,
       37, 38, 39, 49, 50, 51, 52, 53, 54 >>
TurnR ==
    <<  1,  2, 21,  4,  5, 24,  7,  8, 27,
       16, 13, 10, 17, 14, 11, 18, 15, 12,
       19, 20, 30, 22, 23, 33, 25, 26, 36,
       28, 29, 52, 31, 32, 49, 34, 35, 46,
       37, 38, 39, 40, 41, 42, 43, 44, 45,
        9, 47, 48,  6, 50, 51,  3, 53, 54 >>
TurnF ==
    <<  1,  2,  3,  4,  5,  6, 45, 42, 39,
        7, 11, 12,  8, 14, 15,  9, 17, 18,
       25, 22, 19, 26, 23, 20, 27, 24, 21,
       16, 13, 10, 31, 32, 33, 34, 35, 36,
       37, 38, 28, 40, 41, 29, 43, 44, 30,
       46, 47, 48, 49, 50, 51, 52, 53, 54 >>

SolvedCube == [ p \in 1..54 |-> FaceLetters[((p - 1) \div 9) + 1] ]

\* the cube after the first n turns of the scramble R U F R U F ...
RECURSIVE ScrambledCube(_)
ScrambledCube(n) ==
    IF n = 0 THEN SolvedCube
    ELSE LET prev == ScrambledCube(n - 1)
             turn == CASE n % 3 = 1 -> TurnR [] n % 3 = 2 -> TurnU [] OTHER -> TurnF
         IN  [ q \in 1..54 |-> prev[turn[q]] ]

Cubes == { ScrambledCube(n) : n \in 0..MaxScramble }

\* sticker colour of each face of the physical cube
StickerColor(face) ==
    CASE face = "U" -> "W" [] face = "R" -> "B" [] face = "F" -> "R"
      [] face = "D" -> "Y" [] face = "L" -> "G" [] face = "B" -> "O"

\* 1-based position, in the 54-character string, of the j-th (0..7) non-centre
\* facelet of a face: block order U, R, F, D, L, B; local index 4 is the centre
BlockOf(face) ==
    CASE face = "U" -> 0 [] face = "R" -> 1 [] face = "F" -> 2
      [] face = "D" -> 3 [] face = "L" -> 4 [] face = "B" -> 5
NonCenterLocal == << 0, 1, 2, 3, 5, 6, 7, 8 >>
NonCenterPos(face, j) == 9 * BlockOf(face) + NonCenterLocal[j + 1] + 1
CenterPos(b) == 9 * b + 4 + 1

\* labels one camera reads, free of noise, when its three slots show the faces
\* cam_faces of the cube: slot k fills entries 8k..8k+7
SeenBy(cam_faces, cube) ==
    [ g \in 1..24 |->
        StickerColor(cube[NonCenterPos(cam_faces[((g - 1) \div 8) + 1], (g - 1) % 8)]) ]

\* both cameras' labels for a cube seated in orientation o
Seated(o, cube) == << SeenBy(o.cam1_faces, cube), SeenBy(o.cam2_faces, cube) >>

Repeat8(a, b, c) == [ g \in 1..24 |-> IF g <= 8 THEN a ELSE IF g <= 16 THEN b ELSE c ]

\* camera 1 = 8x Red, 8x Green, 8x White; camera 2 = 8x Orange, 8x Blue, 8x Yellow
FaceCenterLabels == << Repeat8("R", "G", "W"), Repeat8("O", "B", "Y") >>

\* both vectors as constructed: 24 value-initialised chars
InitialLabels == << [ g \in 1..24 |-> NUL ], [ g \in 1..24 |-> NUL ] >>

\* one entry of one vector replaced
Replaced(pair, cam, g, label) ==
    IF cam = 1 THEN << [ pair[1] EXCEPT ![g] = label ], pair[2] >>
               ELSE << pair[1], [ pair[2] EXCEPT ![g] = label ] >>

BaseInputs ==
    { FaceCenterLabels, InitialLabels }
        \cup { Seated(default_orientation, cube) : cube \in Cubes }

\* the labels read from the most scrambled cube, the base of the noisy inputs
ScrambledLabels == Seated(default_orientation, ScrambledCube(MaxScramble))

AsmInputs ==
    BaseInputs \cup
    { Replaced(ScrambledLabels, cam, g, label) :
        cam \in 1..2, g \in 1..24, label \in LabelSet }

-----------------------------------------------------------------------------
(* The colour lookup table: init_lut, load_lut_from_file, find_color_lut     *)
(*                                                                           *)
(* color_lut has 180 * 256 * 256 cells and every assignment of the two       *)
(* builders writes one cell from h, s, v and the rule alone, so the table is *)
(* kept at the cells of Cells: the hues, saturations and values at which the *)
(* thresholds of init_lut and of the rules below change, and the pixels of   *)
(* BGR2HSV.                                                                  *)

HProbe == { 0, 9, 10, 15, 30, 60, 120, 170, 179 }
SProbe == { 0, 50, 80, 255 }
VProbe == { 0, 80, 150, 255 }
Cells == HProbe \X SProbe \X VProbe

\* static storage: every cell is '\0' until a builder runs
ZeroLut == [ c \in Cells |-> NUL ]

\* memset(color_lut, 'N', sizeof(color_lut))
UnknownLut == [ c \in Cells |-> "N" ]

init_lut ==
    [ c \in Cells |->
        LET h == c[1]
            s == c[2]
            v == c[3]
        IN  IF s <= 50 /\ v >= 150 THEN "W"
            ELSE IF ((h >= 0 /\ h <= 8) \/ (h >= 172 /\ h <= 179)) /\ s >= 80 /\ v >= 80
                 THEN "R"
            ELSE IF h >= 9 /\ h <= 20 /\ s >= 100 /\ v >= 100 THEN "O"
            ELSE IF h >= 21 /\ h <= 35 /\ s >= 80 /\ v >= 120 THEN "Y"
            ELSE IF h >= 45 /\ h <= 75 /\ s >= 60 /\ v >= 60 THEN "G"
            ELSE IF h >= 100 /\ h <= 125 /\ s >= 80 /\ v >= 80 THEN "B"
            ELSE "N" ]

\* char find_color_lut(Vec3b hsv_pixel)
find_color_lut(lut, hsv_pixel) == lut[hsv_pixel]

\* one line of range.txt that holds a character and six integers, as
\* ss >> color >> h_min >> h_max >> s_min >> s_max >> v_min >> v_max reads it
Rule(color, h_min, h_max, s_min, s_max, v_min, v_max) ==
    [ color |-> color, h_min |-> h_min, h_max |-> h_max,
      s_min |-> s_min, s_max |-> s_max, v_min |-> v_min, v_max |-> v_max,
      parsed |-> 7, bad |-> FALSE ]

\* a line of which only the first `parsed` fields (0..6) can be extracted: the
\* line ends there, or (bad) the next token is not an integer
Malformed(parsed, bad, color, h_min, h_max, s_min, s_max, v_min, v_max) ==
    [ color |-> color, h_min |-> h_min, h_max |-> h_max,
      s_min |-> s_min, s_max |-> s_max, v_min |-> v_min, v_max |-> v_max,
      parsed |-> parsed, bad |-> bad ]

\* char color; int h_min, ...: declared without initialiser. What they hold
\* where no extraction has written them: the values left in their storage by
\* the previous iteration, or anything else
Indeterminate ==
    { Rule(NUL, 0, 0, 0, 0, 0, 0), Rule("W", 0, 179, 0, 255, 0, 255) }

\* the seven variables after the extractions of one line, given what their
\* storage held: an extraction that finds no integer stores 0 and sets failbit,
\* and no later extraction of the line stores anything
Extracted(line, left) ==
    LET Field(n, got) ==
            IF n <= line.parsed THEN got[1]
            ELSE IF n = line.parsed + 1 /\ line.bad THEN 0
            ELSE got[2]
    IN  Rule(IF line.parsed >= 1 THEN line.color ELSE left.color,
             Field(2, << line.h_min, left.h_min >>),
             Field(3, << line.h_max, left.h_max >>),
             Field(4, << line.s_min, left.s_min >>),
             Field(5, << line.s_max, left.s_max >>),
             Field(6, << line.v_min, left.v_min >>),
             Field(7, << line.v_max, left.v_max >>))

\* the outcomes of ss >> color >> ... >> v_max on one line
Parsed(line, locals) ==
    IF line.parsed = 7 THEN { Extracted(line, line) }
    ELSE { Extracted(line, left) : left \in { locals } \cup Indeterminate }

\* bool h_in_range, with a contiguous range also for red
h_in_range_Contiguous(rule, h) == h >= rule.h_min /\ h <= rule.h_max

\* bool red_wrap = (color == 'R' && h_min > h_max);
\* bool h_in_range = red_wrap ? (h >= h_min || h <= h_max) : (h >= h_min && h <= h_max);
h_in_range(rule, h) ==
    LET red_wrap == rule.color = "R" /\ rule.h_min > rule.h_max
    IN  IF red_wrap THEN (h >= rule.h_min \/ h <= rule.h_max)
                    ELSE (h >= rule.h_min /\ h <= rule.h_max)

\* the loop nest of one line, with s and v stopping one short of s_max, v_max
LoadRule_StopShort(lut, rule) ==
    [ c \in Cells |->
        IF /\ h_in_range(rule, c[1])
           /\ c[2] >= rule.s_min /\ c[2] < rule.s_max
           /\ c[3] >= rule.v_min /\ c[3] < rule.v_max
        THEN rule.color
        ELSE lut[c] ]

\* the loop nest of one line, writing only cells no earlier line has written
LoadRule_KeepFirst(lut, rule) ==
    [ c \in Cells |->
        IF /\ lut[c] = "N"
           /\ h_in_range(rule, c[1])
           /\ c[2] >= rule.s_min /\ c[2] <= rule.s_max
           /\ c[3] >= rule.v_min /\ c[3] <= rule.v_max
        THEN rule.color
        ELSE lut[c] ]

\* offset, in chars from &color_lut[0][0][0], of color_lut[h][s][v]
Offset(h, s, v) == (h * 256 + s) * 256 + v

\* the loop nest of one line stores at the cell c: some h in 0..179 with
\* h_in_range, s in s_min..s_max and v in v_min..v_max have c's offset
Stores(rule, c) ==
    \E h \in 0..179 :
        /\ h_in_range(rule, h)
        /\ LET rest == Offset(c[1], c[2], c[3]) - Offset(h, 0, 0)
               lo   == Max({ rule.s_min, (rest - rule.v_max + 255) \div 256 })
               hi   == Min({ rule.s_max, (rest - rule.v_min) \div 256 })
           IN  lo <= hi

\* the loop nest of one line: for h, if (h_in_range) for s in s_min..s_max,
\* for v in v_min..v_max: color_lut[h][s][v] = color
LoadRule(lut, rule) ==
    [ c \in Cells |-> IF Stores(rule, c) THEN rule.color ELSE lut[c] ]

\* indices next to the bounds of the s and v dimensions
SIndex == SProbe \cup { -1, 256 }
VIndex == VProbe \cup { -1, 256 }

\* the index triples outside [0..179][0..255][0..255] that the loop nest of
\* one line writes, among the probed indices
StrayWrites(rule) ==
    { w \in (HProbe \X SIndex \X VIndex) \ Cells :
        /\ h_in_range(rule, w[1])
        /\ w[2] >= rule.s_min /\ w[2] <= rule.s_max
        /\ w[3] >= rule.v_min /\ w[3] <= rule.v_max }

\* while (std::getline(infile, line)): the first n lines
RECURSIVE LoadRules(_, _, _)
LoadRules(lut, file, n) ==
    IF n = 0 THEN lut ELSE LoadRule(LoadRules(lut, file, n - 1), file[n])

\* range.txt cannot be opened
NoFile == [ open |-> FALSE, rules |-> << >> ]

\* range.txt holding the given rules, one per line
RangeFile(rules) == [ open |-> TRUE, rules |-> rules ]

\* void load_lut_from_file(const std::string& filename), as one call
load_lut_from_file(file) ==
    IF ~ file.open THEN init_lut ELSE LoadRules(UnknownLut, file.rules, Len(file.rules))

\* static const ColorRange default_ranges[], the ranges the calibration starts
\* from, written with color_chars[] = W, R, O, Y, G, B
default_ranges ==
    << Rule("W", 0, 179, 0, 50, 150, 255),
       Rule("R", 0, 10, 80, 255, 80, 255),
       Rule("O", 9, 20, 100, 255, 100, 255),
       Rule("Y", 21, 35, 80, 255, 120, 255),
       Rule("G", 45, 75, 60, 255, 60, 255),
       Rule("B", 100, 125, 80, 255, 80, 255) >>

\* longest rule file of the table-building specification
MaxRules == 2

\* rules a calibration can save (trackbars: h in 0..179, s and v in 0..255):
\* three defaults, red ranges that wrap around hue 0, and an orange range whose
\* h_min exceeds its h_max
RuleSet ==
    { default_ranges[1], default_ranges[2], default_ranges[3],
      Rule("R", 170, 10, 80, 255, 80, 255),
      Rule("R", 179, 0, 0, 255, 0, 255),
      Rule("R", 15, 9, 80, 255, 150, 255),
      Rule("O", 170, 10, 80, 255, 80, 255),
      Rule("N", 0, 179, 0, 255, 0, 80) }

RECURSIVE FilesOfLen(_)
FilesOfLen(n) ==
    IF n = 0 THEN { << >> }
    ELSE { Append(f, r) : f \in FilesOfLen(n - 1), r \in RuleSet }

LutFiles ==
    { NoFile } \cup { RangeFile(f) : f \in UNION { FilesOfLen(n) : n \in 0..MaxRules } }

\* the loop body's variables before load_lut_from_file has run
Unset == Rule(NUL, 0, 0, 0, 0, 0, 0)

IdleLut ==
    /\ color_lut = ZeroLut
    /\ lut_file = NoFile
    /\ lut_line = 0
    /\ lut_pc = "idle"
    /\ lut_stray = { }
    /\ lut_locals = Unset

-----------------------------------------------------------------------------
(* Frames, calibrated points and detect_cam_1 / detect_cam_2                 *)

\* a cv::Mat: its size and its pixels, at[<<x, y>>] for 0 <= x < cols, 0 <= y < rows
Mat(cols, rows, px) == [ cols |-> cols, rows |-> rows, at |-> px ]

\* a default-constructed Mat, and what a failed read leaves in the frame
EmptyMat == Mat(0, 0, << >>)

\* Mat::empty()
empty(m) == m.cols = 0 \/ m.rows = 0

\* cv::Point
Point(x, y) == [ x |-> x, y |-> y ]

\* the BGR pixel a camera delivers for a sticker of the given colour; black for
\* a sticker it cannot make out
PixelOf(label) ==
    CASE label = "W" -> << 255, 255, 255 >>
      [] label = "R" -> << 0, 0, 255 >>
      [] label = "O" -> << 0, 128, 255 >>
      [] label = "Y" -> << 0, 255, 255 >>
      [] label = "G" -> << 0, 255, 0 >>
      [] label = "B" -> << 255, 0, 0 >>
      [] OTHER -> << 0, 0, 0 >>

\* integer division rounding to nearest
RoundDiv(a, b) == (2 * a + b) \div (2 * b)

\* COLOR_BGR2HSV on one 8-bit pixel: V = max, S = 255 (V - min) / V, H in half degrees
BGR2HSV(bgr) ==
    LET b == bgr[1]
        g == bgr[2]
        r == bgr[3]
        v == Max({ b, g, r })
        d == v - Min({ b, g, r })
        s == IF v = 0 THEN 0 ELSE RoundDiv(255 * d, v)
        hh == IF d = 0 THEN 0
              ELSE IF v = r THEN RoundDiv(30 * (g - b) + 180 * d, d) % 180
              ELSE IF v = g THEN RoundDiv(30 * (b - r), d) + 60
              ELSE RoundDiv(30 * (r - g), d) + 120
    IN  << hh, s, v >>

\* cvtColor(frame, hsv, COLOR_BGR2HSV)
cvtColor(frame) ==
    Mat(frame.cols, frame.rows, [ p \in DOMAIN frame.at |-> BGR2HSV(frame.at[p]) ])

\* the frame in which the sticker behind label g + 1 fills pixel (g, 0)
SceneFrame(labels) ==
    Mat(Len(labels), 1,
        [ p \in { << x, 0 >> : x \in 0..(Len(labels) - 1) } |-> PixelOf(labels[p[1] + 1]) ])

\* the points calibrated on those pixels, in label order
ScenePoints(labels) == [ g \in 1..Len(labels) |-> Point(g - 1, 0) ]

\* the body of the loop over the points, ignoring the bounds of the frame
SamplePoint_Unchecked(colors, hsv, points, lut, n) ==
    LET x == points[n + 1].x
        y == points[n + 1].y
    IN  [ colors EXCEPT ![n + 1] =
            IF << x, y >> \in DOMAIN hsv.at THEN find_color_lut(lut, hsv.at[<< x, y >>])
            ELSE NUL ]

\* the body of the loop over the points, for i = n:
\* if (x >= 0 && x < hsv.cols && y >= 0 && y < hsv.rows)
\*     glob_colors[i] = find_color_lut(hsv.at<Vec3b>(y, x)); else glob_colors[i] = 'N';
SamplePoint(colors, hsv, points, lut, n) ==
    LET x == points[n + 1].x
        y == points[n + 1].y
    IN  [ colors EXCEPT ![n + 1] =
            IF x >= 0 /\ x < hsv.cols /\ y >= 0 /\ y < hsv.rows
            THEN find_color_lut(lut, hsv.at[<< x, y >>])
            ELSE "N" ]

\* for (int i = 0; i < points.size(); i++): the first n iterations
RECURSIVE SamplePoints(_, _, _, _, _)
SamplePoints(colors, hsv, points, lut, n) ==
    IF n = 0 THEN colors
    ELSE SamplePoint(SamplePoints(colors, hsv, points, lut, n - 1), hsv, points, lut, n - 1)

\* detect_cam_1 / detect_cam_2 as one call, after capture(frame): the HSV buffer
\* and the label vector it leaves (camera_1 and camera_2 are set before the menu)
detect_cam(frame, hsv, points, lut, colors) ==
    IF empty(frame)
    THEN [ hsv |-> hsv, colors |-> colors ]
    ELSE CHOOSE r \in { [ hsv |-> converted,
                           colors |-> SamplePoints(colors, converted, points, lut,
                                                   Len(points)) ] :
                         converted \in { cvtColor(frame) } } : TRUE

\* one whitespace-separated token of a position file: an integer, or text that
\* operator>>(int&) cannot read
Tok(n) == [ num |-> TRUE, val |-> n ]
BadTok == [ num |-> FALSE, val |-> 0 ]

\* a position file on disk, and the file that is not there
PosFile(tokens) == [ open |-> TRUE, tokens |-> tokens ]
NoPosFile == [ open |-> FALSE, tokens |-> << >> ]

\* static int current_click = 0; static int current_face = 0;
\* static int current_facelet = 0; static std::vector<cv::Point> clicked_points;
IdleStatics ==
    /\ current_click = 0
    /\ current_face = 0
    /\ current_facelet = 0
    /\ clicked_points = << >>
    /\ written = 0
    /\ keys = 0

\* the position files are not looked at: load_position is taken by its result
\* on the files a completed calibration of the scene has left
IdlePos ==
    /\ pos_1 = NoPosFile
    /\ pos_2 = NoPosFile
    /\ IdleStatics
    /\ runs = 1
    /\ pos_pc = "menu"

\* int reference_colors[6][3], as initialised in the class: U, R, F, D, L, B
default_reference_colors ==
    << << 255, 255, 255 >>, << 255, 0, 0 >>, << 0, 255, 0 >>,
       << 255, 165, 0 >>, << 0, 0, 255 >>, << 255, 255, 0 >> >>

\* an ArduinoStyleDetection as its constructor leaves it, before mode 'a' has
\* declared frame1, frame2, cube_state and result
IdleArd ==
    /\ camera_1_points = << >>
    /\ camera_2_points = << >>
    /\ reference_colors = default_reference_colors
    /\ frame1 = EmptyMat
    /\ frame2 = EmptyMat
    /\ ard_cube_state = << >>
    /\ result = -1

IdleCameras ==
    /\ points_cam_1 = << >>
    /\ points_cam_2 = << >>
    /\ global_frame_1 = EmptyMat
    /\ global_frame_2 = EmptyMat
    /\ global_hsv_1 = EmptyMat
    /\ global_hsv_2 = EmptyMat
    /\ t1 = "none"
    /\ t2 = "none"
    /\ k1 = 0
    /\ k2 = 0
    /\ scene = InitialLabels
    /\ losses = 0

IdleRun ==
    /\ mode = "none"
    /\ captures = 0
    /\ reported = "none"

-----------------------------------------------------------------------------
(* The two pure functions applied to arbitrary label vectors *)

NoString == << >>
NoCounts == [ c \in FaceSet \cup { "N" } |-> 0 ]

IdleSession ==
    /\ pc = "menu"
    /\ attempt = 0
    /\ success = FALSE
    /\ solver_initialized = FALSE
    /\ orientations = << >>
    /\ i = 0
    /\ tried = << >>
    /\ selected = 0
    /\ engine_calls = 0
    /\ solution = "none"

sessionVars == << pc, attempt, success, solver_initialized,
                  orientations, i, tried, selected, engine_calls, solution,
                  lib_checks_centers >>

AsmInit ==
    /\ \E pair \in AsmInputs :
          /\ glob_colors_cam_1 = pair[1]
          /\ glob_colors_cam_2 = pair[2]
    /\ orientation = 0
    /\ cube_state = NoString
    /\ is_valid = FALSE
    /\ face_counts = NoCounts
    /\ validated = FALSE
    /\ lib_checks_centers = FALSE
    /\ IdleSession
    /\ IdleLut
    /\ IdlePos
    /\ IdleArd
    /\ IdleCameras
    /\ IdleRun

\* the first call generateFaceString(generateAllOrientations()[n]) on the labels
CallGenerateFaceString(n) ==
    /\ orientation = 0
    /\ ~ validated
    /\ orientation' = n
    /\ cube_state' = generateFaceString(generateAllOrientations[n],
                                        glob_colors_cam_1, glob_colors_cam_2)
    /\ UNCHANGED << glob_colors_cam_1, glob_colors_cam_2, is_valid, face_counts,
                    validated, sessionVars, lutVars, posVars, ardVars, camVars, runVars >>

\* the first call validateCube() on the labels
CallValidateCube ==
    /\ ~ validated
    /\ is_valid' = validateCube(glob_colors_cam_1, glob_colors_cam_2)
    /\ face_counts' = CountFaces(glob_colors_cam_1, glob_colors_cam_2)
    /\ validated' = TRUE
    /\ UNCHANGED << glob_colors_cam_1, glob_colors_cam_2, orientation, cube_state,
                    sessionVars, lutVars, posVars, ardVars, camVars, runVars >>

AsmNext ==
    \/ \E n \in 1..Len(generateAllOrientations) : CallGenerateFaceString(n)
    \/ CallValidateCube

SpecAsm == AsmInit /\ [][AsmNext]_vars

-----------------------------------------------------------------------------
(* load_lut_from_file line by line, on every rule file of LutFiles           *)

asmVars == << glob_colors_cam_1, glob_colors_cam_2, orientation, cube_state,
              is_valid, face_counts, validated >>

IdleLabels ==
    /\ glob_colors_cam_1 = InitialLabels[1]
    /\ glob_colors_cam_2 = InitialLabels[2]
    /\ orientation = 0
    /\ cube_state = NoString
    /\ is_valid = FALSE
    /\ face_counts = NoCounts
    /\ validated = FALSE

\* the program before a table builder runs, with one of the given files as range.txt
LutStart(files) ==
    /\ IdleLabels
    /\ lib_checks_centers = FALSE
    /\ IdleSession
    /\ IdleCameras
    /\ IdleRun
    /\ color_lut = ZeroLut
    /\ lut_file \in files
    /\ lut_line = 0
    /\ lut_pc = "idle"
    /\ lut_stray = { }
    /\ lut_locals = Unset
    /\ IdlePos
    /\ IdleArd

LutInit == LutStart(LutFiles)

\* init_lut(), which every mode calls before load_lut_from_file
CallInitLut ==
    /\ lut_pc = "idle"
    /\ color_lut = ZeroLut
    /\ color_lut' = init_lut
    /\ UNCHANGED << lut_file, posVars, ardVars, lut_line, lut_pc, lut_stray, lut_locals,
                    asmVars, sessionVars, camVars, runVars >>

\* load_lut_from_file's first statements, the rules of an opened file being
\* laid over the hardcoded table and not over a table cleared to 'N'
LutOpen_OverDefaults ==
    /\ lut_pc = "idle"
    /\ color_lut' = init_lut
    /\ lut_pc' = IF ~ lut_file.open THEN "loaded" ELSE "reading"
    /\ lut_line' = 0
    /\ UNCHANGED << lut_file, posVars, ardVars, lut_stray, lut_locals, asmVars, sessionVars, camVars, runVars >>

\* memset(color_lut, 'N', ...); std::ifstream infile(filename); with a
\* fallback that leaves the cleared table as it is
LutOpen_NoFallback ==
    /\ lut_pc = "idle"
    /\ color_lut' = UnknownLut
    /\ lut_pc' = IF ~ lut_file.open THEN "loaded" ELSE "reading"
    /\ lut_line' = 0
    /\ UNCHANGED << lut_file, posVars, ardVars, lut_stray, lut_locals, asmVars, sessionVars, camVars, runVars >>

\* memset(color_lut, 'N', ...); std::ifstream infile(filename);
\* if (!infile.is_open()) { init_lut(); return; }
LutOpen ==
    /\ lut_pc = "idle"
    /\ IF ~ lut_file.open
       THEN color_lut' = init_lut /\ lut_pc' = "loaded"
       ELSE color_lut' = UnknownLut /\ lut_pc' = "reading"
    /\ lut_line' = 0
    /\ UNCHANGED << lut_file, posVars, ardVars, lut_stray, lut_locals, asmVars, sessionVars, camVars, runVars >>

\* one iteration of while (std::getline(infile, line)): the extractions, then
\* the loop nest on whatever the seven variables hold
LutReadLine ==
    /\ lut_pc = "reading"
    /\ lut_line < Len(lut_file.rules)
    /\ \E rule \in Parsed(lut_file.rules[lut_line + 1], lut_locals) :
          /\ lut_locals' = rule
          /\ color_lut' = LoadRule(color_lut, rule)
          /\ lut_stray' = lut_stray \cup StrayWrites(rule)
    /\ lut_line' = lut_line + 1
    /\ UNCHANGED << lut_file, posVars, ardVars, lut_pc, asmVars, sessionVars, camVars, runVars >>

\* getline fails at the end of the file: the function returns
LutEof ==
    /\ lut_pc = "reading"
    /\ lut_line = Len(lut_file.rules)
    /\ lut_pc' = "loaded"
    /\ UNCHANGED << color_lut, lut_file, posVars, ardVars, lut_line, lut_stray, lut_locals,
                    asmVars, sessionVars, camVars, runVars >>

LutNext ==
    \/ CallInitLut
    \/ LutOpen
    \/ LutReadLine
    \/ LutEof

SpecLut == LutInit /\ [][LutNext]_vars

\* longest file of lines of all kinds
MaxLines == 2

\* lines a hand-edited range.txt can hold: a rule, an empty line, a line that
\* ends after its hue bounds, a line whose last token is no number, a comment,
\* and rules whose s or v bounds leave 0..255
LineSet ==
    { default_ranges[2],
      Malformed(0, FALSE, NUL, 0, 0, 0, 0, 0, 0),
      Malformed(3, FALSE, "B", 0, 179, 0, 0, 0, 0),
      Malformed(6, TRUE, "B", 0, 179, 0, 255, 0, 0),
      Malformed(1, TRUE, "#", 0, 0, 0, 0, 0, 0),
      Rule("G", 45, 75, 60, 300, 60, 255),
      Rule("Y", 21, 35, -5, 255, 120, 255),
      Rule("O", 170, 179, 0, 255, 0, 256) }

RECURSIVE LinesOfLen(_)
LinesOfLen(n) ==
    IF n = 0 THEN { << >> }
    ELSE { Append(f, r) : f \in LinesOfLen(n - 1), r \in LineSet }

LineFiles == { RangeFile(f) : f \in UNION { LinesOfLen(n) : n \in 1..MaxLines } }

\* load_lut_from_file line by line, on every file of LineFiles
SpecLutLines == LutStart(LineFiles) /\ [][LutNext]_vars

-----------------------------------------------------------------------------
(* benchmark() and parallel_benchmark(): the two detect functions statement  *)
(* by statement, called one after the other or on two threads                *)

\* init_mat(): the four buffers as black images of the camera's size
init_mat == Mat(24, 1, [ p \in { << x, 0 >> : x \in 0..23 } |-> << 0, 0, 0 >> ])

\* the buffer detect_cam_1 converts into and samples from: global_hsv_1
Buffer1 == 1

\* detect_cam_2 converting into and sampling from the buffer of detect_cam_1
Buffer2_Shared == Buffer1

\* the buffer detect_cam_2 converts into and samples from: global_hsv_2
Buffer2 == 2

Hsv(b) == IF b = 1 THEN global_hsv_1 ELSE global_hsv_2

\* cvtColor(..., global_hsv_b, COLOR_BGR2HSV)
WriteHsv(b, m) ==
    IF b = 1 THEN global_hsv_1' = m /\ UNCHANGED global_hsv_2
             ELSE global_hsv_2' = m /\ UNCHANGED global_hsv_1

\* most captures of a run that leave their frame empty
MaxEmptyFrames == 1

\* what capture() can hand back: the image of the scene, or nothing
Delivered(cam) ==
    { SceneFrame(scene[cam]) } \cup (IF losses > 0 THEN { EmptyMat } ELSE { })

\* the empty frames still to come once a capture has handed back the frame
Counted(frame) == IF empty(frame) THEN losses - 1 ELSE losses

otherVars == << orientation, cube_state, is_valid, face_counts, validated,
                sessionVars, lutVars, posVars, ardVars, runVars, points_cam_1, points_cam_2, scene >>

\* camera_1->capture(global_frame_1);
Capture1 ==
    /\ t1 = "capture"
    /\ global_frame_1' \in Delivered(1)
    /\ losses' = Counted(global_frame_1')
    /\ t1' = "convert"
    /\ UNCHANGED << glob_colors_cam_1, glob_colors_cam_2, global_frame_2,
                    global_hsv_1, global_hsv_2, t2, k1, k2, otherVars >>

\* if (global_frame_1.empty()) return; cvtColor(global_frame_1, global_hsv_1, ...)
Convert1 ==
    /\ t1 = "convert"
    /\ IF empty(global_frame_1)
       THEN t1' = "done" /\ UNCHANGED << global_hsv_1, global_hsv_2 >>
       ELSE t1' = "sample" /\ WriteHsv(Buffer1, cvtColor(global_frame_1))
    /\ k1' = 0
    /\ UNCHANGED << glob_colors_cam_1, glob_colors_cam_2, global_frame_1,
                    global_frame_2, t2, k2, losses, otherVars >>

\* one iteration of for (int i = 0; i < points_cam_1.size(); i++)
Sample1 ==
    /\ t1 = "sample"
    /\ k1 < Len(points_cam_1)
    /\ glob_colors_cam_1' =
          SamplePoint(glob_colors_cam_1, Hsv(Buffer1), points_cam_1, color_lut, k1)
    /\ k1' = k1 + 1
    /\ UNCHANGED << glob_colors_cam_2, global_frame_1, global_frame_2, global_hsv_1,
                    global_hsv_2, t1, t2, k2, losses, otherVars >>

\* the loop of detect_cam_1 ends and the function returns
Return1 ==
    /\ t1 = "sample"
    /\ ~ (k1 < Len(points_cam_1))
    /\ t1' = "done"
    /\ k1' = 0
    /\ UNCHANGED << glob_colors_cam_1, glob_colors_cam_2, global_frame_1,
                    global_frame_2, global_hsv_1, global_hsv_2, t2, k2, losses, otherVars >>

\* camera_2->capture(global_frame_2);
Capture2 ==
    /\ t2 = "capture"
    /\ global_frame_2' \in Delivered(2)
    /\ losses' = Counted(global_frame_2')
    /\ t2' = "convert"
    /\ UNCHANGED << glob_colors_cam_1, glob_colors_cam_2, global_frame_1,
                    global_hsv_1, global_hsv_2, t1, k1, k2, otherVars >>

\* if (global_frame_2.empty()) return; cvtColor(global_frame_2, global_hsv_2, ...)
Convert2 ==
    /\ t2 = "convert"
    /\ IF empty(global_frame_2)
       THEN t2' = "done" /\ UNCHANGED << global_hsv_1, global_hsv_2 >>
       ELSE t2' = "sample" /\ WriteHsv(Buffer2, cvtColor(global_frame_2))
    /\ k2' = 0
    /\ UNCHANGED << glob_colors_cam_1, glob_colors_cam_2, global_frame_1,
                    global_frame_2, t1, k1, losses, otherVars >>

\* one iteration of for (int i = 0; i < points_cam_2.size(); i++)
Sample2 ==
    /\ t2 = "sample"
    /\ k2 < Len(points_cam_2)
    /\ glob_colors_cam_2' =
          SamplePoint(glob_colors_cam_2, Hsv(Buffer2), points_cam_2, color_lut, k2)
    /\ k2' = k2 + 1
    /\ UNCHANGED << glob_colors_cam_1, global_frame_1, global_frame_2, global_hsv_1,
                    global_hsv_2, t1, t2, k1, losses, otherVars >>

\* the loop of detect_cam_2 ends and the function returns
Return2 ==
    /\ t2 = "sample"
    /\ ~ (k2 < Len(points_cam_2))
    /\ t2' = "done"
    /\ k2' = 0
    /\ UNCHANGED << glob_colors_cam_1, glob_colors_cam_2, global_frame_1,
                    global_frame_2, global_hsv_1, global_hsv_2, t1, k1, losses, otherVars >>

callerVars == << glob_colors_cam_1, glob_colors_cam_2, orientation, cube_state,
                 is_valid, face_counts, attempt, success, solver_initialized,
                 orientations, i, tried, selected, engine_calls, solution,
                 lib_checks_centers, lutVars, posVars, ardVars, points_cam_1, points_cam_2,
                 global_frame_1, global_frame_2, global_hsv_1, global_hsv_2,
                 k1, k2, scene, losses, mode, reported >>

\* parallel_benchmark(): std::thread t1(detect_cam_1); std::thread t2(detect_cam_2);
StartThreads ==
    /\ pc = "capture"
    /\ mode \in { "j", "s" }
    /\ t1' = "capture"
    /\ t2' = "capture"
    /\ captures' = captures + 1
    /\ validated' = FALSE
    /\ pc' = "join"
    /\ UNCHANGED callerVars

\* parallel_benchmark() returning without t1.join(); t2.join();
JoinThreads_NoWait ==
    /\ pc = "join"
    /\ pc' = "validate"
    /\ UNCHANGED << callerVars, t1, t2, captures, validated >>

\* parallel_benchmark(): t1.join(); t2.join(); and the return
JoinThreads ==
    /\ pc = "join"
    /\ t1 = "done"
    /\ t2 = "done"
    /\ t1' = "none"
    /\ t2' = "none"
    /\ pc' = "validate"
    /\ UNCHANGED << callerVars, captures, validated >>

\* benchmark(): the call of detect_cam_1
StartBenchmark ==
    /\ pc = "capture"
    /\ mode = "b"
    /\ t1' = "capture"
    /\ captures' = captures + 1
    /\ validated' = FALSE
    /\ pc' = "benchmark"
    /\ UNCHANGED << callerVars, t2 >>

\* benchmark(): detect_cam_1 has returned, the call of detect_cam_2
BenchmarkSecond ==
    /\ pc = "benchmark"
    /\ t1 = "done"
    /\ t2 = "none"
    /\ t2' = "capture"
    /\ UNCHANGED << callerVars, t1, pc, captures, validated >>

\* benchmark(): detect_cam_2 has returned, and so does benchmark
BenchmarkReturn ==
    /\ pc = "benchmark"
    /\ t2 = "done"
    /\ t1' = "none"
    /\ t2' = "none"
    /\ pc' = "validate"
    /\ UNCHANGED << callerVars, captures, validated >>

\* calibrated points with four of them outside the frame (left, right, above,
\* below) and one moved onto another sticker's pixel
StrayPoints(labels) ==
    [ ScenePoints(labels) EXCEPT ![1] = Point(-1, 0), ![2] = Point(Len(labels), 0),
                                 ![12] = Point(5, 0),
                                 ![23] = Point(0, -1), ![24] = Point(0, 1) ]

DetectPoints ==
    LET good == ScenePoints(InitialLabels[1])
        stray == StrayPoints(InitialLabels[1])
    IN  { << good, good >>, << stray, good >>, << good, stray >> }

\* a scrambled cube, and the same cube with a sticker camera 1 cannot make out
DetectScenes ==
    { ScrambledLabels, Replaced(ScrambledLabels, 1, 3, "N") }

\* the state a session is in when attempt number n calls benchmark() or
\* parallel_benchmark(): on a retry the buffers and the labels are those an
\* earlier capture of the scene left
DetInit ==
    /\ mode \in { "b", "j" }
    /\ pc = "capture"
    /\ attempt \in 1..2
    /\ captures = attempt - 1
    /\ reported = "none"
    /\ lut_file = IF mode = "b" THEN NoFile ELSE RangeFile(default_ranges)
    /\ color_lut = load_lut_from_file(lut_file)
    /\ lut_line = Len(lut_file.rules)
    /\ lut_pc = "loaded"
    /\ lut_stray = { }
    /\ lut_locals = IF mode = "b" THEN Unset ELSE default_ranges[Len(default_ranges)]
    /\ IdlePos
    /\ IdleArd
    /\ \E pts \in DetectPoints : points_cam_1 = pts[1] /\ points_cam_2 = pts[2]
    /\ scene \in DetectScenes
    /\ losses = MaxEmptyFrames
    /\ global_frame_1 = IF attempt = 1 THEN init_mat ELSE SceneFrame(scene[1])
    /\ global_frame_2 = IF attempt = 1 THEN init_mat ELSE SceneFrame(scene[2])
    /\ LET r1 == detect_cam(global_frame_1, init_mat, points_cam_1, color_lut,
                            InitialLabels[1])
           r2 == detect_cam(global_frame_2, init_mat, points_cam_2, color_lut,
                            InitialLabels[2])
       IN  /\ global_hsv_1 = IF attempt = 1 THEN init_mat ELSE r1.hsv
           /\ global_hsv_2 = IF attempt = 1 THEN init_mat ELSE r2.hsv
           /\ glob_colors_cam_1 = IF attempt = 1 THEN InitialLabels[1] ELSE r1.colors
           /\ glob_colors_cam_2 = IF attempt = 1 THEN InitialLabels[2] ELSE r2.colors
    /\ t1 = "none"
    /\ t2 = "none"
    /\ k1 = 0
    /\ k2 = 0
    /\ orientation = 0
    /\ cube_state = NoString
    /\ is_valid = FALSE
    /\ face_counts = NoCounts
    /\ validated = FALSE
    /\ lib_checks_centers = FALSE
    /\ success = FALSE
    /\ solver_initialized = FALSE
    /\ orientations = << >>
    /\ i = 0
    /\ tried = << >>
    /\ selected = 0
    /\ engine_calls = 0
    /\ solution = "none"

DetNext ==
    \/ StartThreads
    \/ JoinThreads
    \/ StartBenchmark
    \/ BenchmarkSecond
    \/ BenchmarkReturn
    \/ Capture1
    \/ Convert1
    \/ Sample1
    \/ Return1
    \/ Capture2
    \/ Convert2
    \/ Sample2
    \/ Return2

SpecDetect == DetInit /\ [][DetNext]_vars

-----------------------------------------------------------------------------
(* The structural pre-check: face::to_cubie followed by cubie::check.       *)
(* Both belong to the linked two-phase solver library, whose sources are    *)
(* not part of this repository's files; they are modelled from the design   *)
(* ("syntactic validity expected by the external solver's cube              *)
(* representation - rejects permutation/parity-impossible states") as the   *)
(* facelet-to-cubie conversion of the two-phase algorithm.  Whether the     *)
(* conversion also insists on the centre letters U,R,F,D,L,B is left to     *)
(* lib_checks_centers, fixed when the program starts.                       *)

\* facelets (0-based) of the eight corner positions URF UFL ULB UBR DFR DLF DBL DRB
CORNLETS ==
    << << 8, 9, 20 >>, << 6, 18, 38 >>, << 0, 36, 47 >>, << 2, 45, 11 >>,
       << 29, 26, 15 >>, << 27, 44, 24 >>, << 33, 53, 42 >>, << 35, 17, 51 >> >>

\* facelets (0-based) of the twelve edge positions UR UF UL UB DR DF DL DB FR FL BL BR
EDGELETS ==
    << << 5, 10 >>, << 7, 19 >>, << 3, 37 >>, << 1, 46 >>, << 32, 16 >>, << 28, 25 >>,
       << 30, 43 >>, << 34, 52 >>, << 23, 12 >>, << 21, 41 >>, << 50, 39 >>, << 48, 14 >> >>

\* letter of the face a facelet (0-based) lies on
FaceOfFacelet(f) == FaceLetters[(f \div 9) + 1]

NoCubie == [ cubie |-> 0, ori |-> 0 ]

\* cubie and twist found at corner position c (1..8), NoCubie when none matches
CornerAt(s, c) ==
    LET col(k) == s[CORNLETS[c][k + 1] + 1]
        oris   == { k \in 0..2 : col(k) \in { "U", "D" } }
    IN  IF oris = { } THEN NoCubie
        ELSE LET ori  == Min(oris)
                 col1 == col((ori + 1) % 3)
                 col2 == col((ori + 2) % 3)
                 hits == { j \in 1..8 : /\ FaceOfFacelet(CORNLETS[j][2]) = col1
                                        /\ FaceOfFacelet(CORNLETS[j][3]) = col2 }
             IN  IF hits = { } THEN NoCubie ELSE [ cubie |-> Min(hits), ori |-> ori ]

\* cubie and flip found at edge position e (1..12), NoCubie when none matches
EdgeAt(s, e) ==
    LET a == s[EDGELETS[e][1] + 1]
        b == s[EDGELETS[e][2] + 1]
        straight == { j \in 1..12 : /\ FaceOfFacelet(EDGELETS[j][1]) = a
                                     /\ FaceOfFacelet(EDGELETS[j][2]) = b }
        flipped  == { j \in 1..12 : /\ FaceOfFacelet(EDGELETS[j][1]) = b
                                     /\ FaceOfFacelet(EDGELETS[j][2]) = a }
    IN  IF straight # { } THEN [ cubie |-> Min(straight), ori |-> 0 ]
        ELSE IF flipped # { } THEN [ cubie |-> Min(flipped), ori |-> 1 ]
        ELSE NoCubie

RECURSIVE SumOri(_, _)
SumOri(f, n) == IF n = 0 THEN 0 ELSE f[n].ori + SumOri(f, n - 1)

\* parity of the permutation n |-> f[n].cubie
Parity(f, n) ==
    Cardinality({ pr \in (1..n) \X (1..n) :
                    pr[1] < pr[2] /\ f[pr[1]].cubie > f[pr[2]].cubie }) % 2

\* face::to_cubie(face_string, c) returns 0
to_cubie_ok(s, centers) ==
    /\ Len(s) = 54
    /\ \A p \in 1..54 : s[p] \in FaceSet
    /\ centers => \A b \in 0..5 : s[9 * b + 4 + 1] = FaceLetters[b + 1]
    /\ \A c \in 1..8 : CornerAt(s, c) # NoCubie
    /\ \A e \in 1..12 : EdgeAt(s, e) # NoCubie

\* cubie::check(c) returns 0, for the cube to_cubie built from s
cubie_check_ok(s) ==
    LET corners == [ c \in 1..8 |-> CornerAt(s, c) ]
        edges   == [ e \in 1..12 |-> EdgeAt(s, e) ]
    IN  /\ { corners[c].cubie : c \in 1..8 } = 1..8
        /\ { edges[e].cubie : e \in 1..12 } = 1..12
        /\ SumOri(corners, 8) % 3 = 0
        /\ SumOri(edges, 12) % 2 = 0
        /\ Parity(corners, 8) = Parity(edges, 12)

\* face_error == 0 and cubie_error == 0
PreCheck(s, centers) == to_cubie_ok(s, centers) /\ cubie_check_ok(s)

-----------------------------------------------------------------------------
(* Mode 's' of main(): capture, validateCube, generateFaceString(),          *)
(* solveWithMultipleOrientations, up to three attempts                       *)

\* for (int attempt = 1; attempt <= 3; attempt++)
MaxAttempts == 3

ERROR_INIT == "ERROR: Solver initialization failed"
ERROR_NO_SOLUTION == "ERROR: No solution found"
ERROR_NO_ORIENTATION ==
    "ERROR: No valid orientation found - all 24 orientations failed validation"
\* a returned move sequence, "<moves> (<n> moves)"
MOVES == "moves"

\* solution.substr(0, 5) != "ERROR"
IsSolution(str) == str \notin { ERROR_INIT, ERROR_NO_SOLUTION, ERROR_NO_ORIENTATION }

\* two entries of camera 1 exchanged: an edge sticker of slot 0 and one of slot 1
Swapped(pair) ==
    << [ pair[1] EXCEPT ![2] = pair[1][10], ![10] = pair[1][2] ], pair[2] >>

\* label vectors a capture of both cameras can produce in a session
SessionInputs ==
    { Seated(generateAllOrientations[n], cube) :
        n \in 1..Len(generateAllOrientations), cube \in Cubes }
    \cup { Swapped(Seated(default_orientation, cube)) : cube \in Cubes }
    \cup { Replaced(Seated(default_orientation, cube), cam, 1, "N") :
             cube \in Cubes, cam \in 1..2 }

\* the program at its menu: one of the given cubes in front of the cameras,
\* and the given number of captures that will come back empty
AtMenu(scenes, lost) ==
    /\ IdleLabels
    /\ lib_checks_centers = FALSE
    /\ IdleSession
    /\ color_lut = ZeroLut
    /\ lut_file = RangeFile(default_ranges)
    /\ lut_line = 0
    /\ lut_pc = "idle"
    /\ lut_stray = { }
    /\ lut_locals = Unset
    /\ IdlePos
    /\ IdleArd
    /\ points_cam_1 = << >>
    /\ points_cam_2 = << >>
    /\ global_frame_1 = EmptyMat
    /\ global_frame_2 = EmptyMat
    /\ global_hsv_1 = EmptyMat
    /\ global_hsv_2 = EmptyMat
    /\ t1 = "none"
    /\ t2 = "none"
    /\ k1 = 0
    /\ k2 = 0
    /\ scene \in scenes
    /\ losses = lost
    /\ IdleRun

\* every scene of SessionInputs, in front of cameras that deliver every frame
Init == AtMenu(SessionInputs, 0)

\* scenes of a session whose cameras may lose frames: the solved cube as the
\* catalog's first entry seats it, a scrambled cube seated otherwise, a cube
\* with two stickers exchanged and a cube with a sticker no camera makes out
SessionScenes ==
    { Seated(default_orientation, SolvedCube),
      Seated(generateAllOrientations[3], ScrambledCube(MaxScramble)),
      Swapped(Seated(default_orientation, SolvedCube)),
      Replaced(Seated(default_orientation, SolvedCube), 2, 1, "N") }

SessionInit == AtMenu(SessionScenes, MaxEmptyFrames)

\* the set-up every detection mode starts with: init_lut(); init_mat();
\* load_position("pos_1.txt", "pos_2.txt"); and, with_file, load_lut_from_file.
\* load_position appends the 24 calibrated points of each camera to its list.
SetUp(with_file) ==
    /\ color_lut' = IF with_file THEN load_lut_from_file(lut_file) ELSE init_lut
    /\ lut_line' = IF with_file THEN Len(lut_file.rules) ELSE 0
    /\ lut_pc' = IF with_file THEN "loaded" ELSE "idle"
    /\ lut_stray' = IF with_file /\ lut_file.open
                    THEN lut_stray \cup UNION { StrayWrites(lut_file.rules[n]) :
                                                  n \in 1..Len(lut_file.rules) }
                    ELSE lut_stray
    /\ lut_locals' = IF with_file /\ lut_file.open /\ lut_file.rules # << >>
                     THEN lut_file.rules[Len(lut_file.rules)] ELSE lut_locals
    /\ global_frame_1' = init_mat
    /\ global_frame_2' = init_mat
    /\ global_hsv_1' = init_mat
    /\ global_hsv_2' = init_mat
    /\ points_cam_1' = points_cam_1 \o ScenePoints(scene[1])
    /\ points_cam_2' = points_cam_2 \o ScenePoints(scene[2])
    /\ attempt' = 1
    /\ pc' = "capture"
    /\ UNCHANGED << asmVars, success, orientations, i, tried, selected,
                    engine_calls, solution, lut_file, posVars, ardVars,
                    t1, t2, k1, k2, scene, losses, captures, reported >>

\* else if (k == 'b'): the set-up before the attempt loop
EnterBenchmarkMode ==
    /\ pc = "menu"
    /\ mode' = "b"
    /\ SetUp(FALSE)
    /\ UNCHANGED << solver_initialized, lib_checks_centers >>

\* else if (k == 'j'): the set-up before the attempt loop
EnterDetectionMode ==
    /\ pc = "menu"
    /\ mode' = "j"
    /\ SetUp(TRUE)
    /\ UNCHANGED << solver_initialized, lib_checks_centers >>

\* else if (k == 's'): the set-up before the attempt loop, initializeRobTwophase()
\* included, which leaves solver_initialized false when prun::init fails; the
\* solver library linked into the program is the one this run will call
EnterSolveMode ==
    /\ pc = "menu"
    /\ mode' = "s"
    /\ SetUp(TRUE)
    /\ \E tables_ok \in BOOLEAN : solver_initialized' = tables_ok
    /\ lib_checks_centers' \in BOOLEAN

\* detect_cam_1() from its first statement to its return
detect_cam_1 ==
    /\ t1 = "capture"
    /\ \E frame \in Delivered(1) :
          \E r \in { detect_cam(frame, global_hsv_1, points_cam_1, color_lut,
                                glob_colors_cam_1) } :
              /\ global_frame_1' = frame
              /\ global_hsv_1' = r.hsv
              /\ glob_colors_cam_1' = r.colors
              /\ losses' = Counted(frame)
    /\ t1' = "done"
    /\ UNCHANGED << glob_colors_cam_2, global_frame_2, global_hsv_2, t2, k1, k2,
                    otherVars >>

\* detect_cam_2() from its first statement to its return
detect_cam_2 ==
    /\ t2 = "capture"
    /\ \E frame \in Delivered(2) :
          \E r \in { detect_cam(frame, global_hsv_2, points_cam_2, color_lut,
                                glob_colors_cam_2) } :
              /\ global_frame_2' = frame
              /\ global_hsv_2' = r.hsv
              /\ glob_colors_cam_2' = r.colors
              /\ losses' = Counted(frame)
    /\ t2' = "done"
    /\ UNCHANGED << glob_colors_cam_1, global_frame_1, global_hsv_1, t1, k1, k2,
                    otherVars >>

\* parallel_benchmark(): the two threads are started, and joined when both
\* detect functions have returned
parallel_benchmark == StartThreads \/ JoinThreads

\* benchmark(): detect_cam_1(); detect_cam_2();
benchmark == StartBenchmark \/ BenchmarkSecond \/ BenchmarkReturn

\* modes 'b' and 'j': bool is_valid = validateCube(); if (is_valid) { ...; break; }
\* else if (attempt == 3) { "Failed to get valid cube state after 3 attempts" }
DetectionResult ==
    /\ pc = "validate"
    /\ mode \in { "b", "j" }
    /\ is_valid' = validateCube(glob_colors_cam_1, glob_colors_cam_2)
    /\ face_counts' = CountFaces(glob_colors_cam_1, glob_colors_cam_2)
    /\ validated' = TRUE
    /\ IF is_valid'
       THEN reported' = "success" /\ pc' = "done"
       ELSE /\ reported' = IF attempt = MaxAttempts THEN "failure" ELSE reported
            /\ pc' = "next"
    /\ UNCHANGED << glob_colors_cam_1, glob_colors_cam_2, orientation, cube_state,
                    attempt, success, solver_initialized,
                    orientations, i, tried, selected, engine_calls, solution,
                    lib_checks_centers, lutVars, posVars, ardVars, camVars, mode, captures >>

\* bool is_valid = validateCube(); if (is_valid) ... else ...
ValidatePhase ==
    /\ pc = "validate"
    /\ mode = "s"
    /\ is_valid' = validateCube(glob_colors_cam_1, glob_colors_cam_2)
    /\ face_counts' = CountFaces(glob_colors_cam_1, glob_colors_cam_2)
    /\ validated' = TRUE
    /\ pc' = IF is_valid' THEN "generate" ELSE "next"
    /\ UNCHANGED << glob_colors_cam_1, glob_colors_cam_2, orientation, cube_state,
                    attempt, success, solver_initialized,
                    orientations, i, tried, selected, engine_calls, solution,
                    lib_checks_centers, lutVars, posVars, ardVars, camVars, runVars >>

\* cube_face_string = generateFaceString();
GeneratePhase ==
    /\ pc = "generate"
    /\ orientation' = 1
    /\ cube_state' = generateFaceString(default_orientation,
                                        glob_colors_cam_1, glob_colors_cam_2)
    /\ pc' = "solve"
    /\ UNCHANGED << glob_colors_cam_1, glob_colors_cam_2, is_valid, face_counts,
                    validated, attempt, success, solver_initialized, orientations,
                    i, tried, selected, engine_calls, solution, lib_checks_centers, lutVars, posVars, ardVars, camVars, runVars >>

\* solveWithMultipleOrientations, up to the head of its for loop
SolveEnter ==
    /\ pc = "solve"
    /\ \E tables_ok \in BOOLEAN :
          /\ solver_initialized' = (solver_initialized \/ tables_ok)
          /\ IF solver_initialized'
             THEN /\ orientations' = generateAllOrientations
                  /\ solution' = "none"
                  /\ pc' = "loop"
             ELSE /\ orientations' = << >>
                  /\ solution' = ERROR_INIT
                  /\ pc' = "returned"
    /\ i' = 0
    /\ tried' = << >>
    /\ selected' = 0
    /\ engine_calls' = 0
    /\ UNCHANGED << glob_colors_cam_1, glob_colors_cam_2, orientation, cube_state,
                    is_valid, face_counts, validated, attempt, success, lib_checks_centers, lutVars, posVars, ardVars, camVars, runVars >>

\* the string the loop body assembles for orientations[i]
LoopFaceString ==
    generateFaceString(orientations[i + 1], glob_colors_cam_1, glob_colors_cam_2)

\* one loop iteration that ends in "continue" whatever the pre-check says
LoopContinue_Unchecked ==
    /\ pc = "loop"
    /\ i < Len(orientations)
    /\ orientation' = i + 1
    /\ cube_state' = LoopFaceString
    /\ tried' = Append(tried, i + 1)
    /\ i' = i + 1
    /\ UNCHANGED << glob_colors_cam_1, glob_colors_cam_2, is_valid, face_counts,
                    validated, pc, attempt, success,
                    solver_initialized, orientations, selected, engine_calls,
                    solution, lib_checks_centers, lutVars, posVars, ardVars, camVars, runVars >>

\* one loop iteration that ends in "continue": face_error != 0 or cubie_error != 0
LoopContinue ==
    /\ pc = "loop"
    /\ i < Len(orientations)
    /\ orientation' = i + 1
    /\ cube_state' = LoopFaceString
    /\ ~ PreCheck(cube_state', lib_checks_centers)
    /\ tried' = Append(tried, i + 1)
    /\ i' = i + 1
    /\ UNCHANGED << glob_colors_cam_1, glob_colors_cam_2, is_valid, face_counts,
                    validated, pc, attempt, success,
                    solver_initialized, orientations, selected, engine_calls,
                    solution, lib_checks_centers, lutVars, posVars, ardVars, camVars, runVars >>

\* the loop iteration that passes the pre-check: the engine solves and the
\* function returns the moves, or ERROR_NO_SOLUTION when solutions is empty
LoopSolve ==
    /\ pc = "loop"
    /\ i < Len(orientations)
    /\ orientation' = i + 1
    /\ cube_state' = LoopFaceString
    /\ PreCheck(cube_state', lib_checks_centers)
    /\ tried' = Append(tried, i + 1)
    /\ selected' = i + 1
    /\ engine_calls' = engine_calls + 1
    /\ \E found \in BOOLEAN :
          solution' = IF found THEN MOVES ELSE ERROR_NO_SOLUTION
    /\ pc' = "returned"
    /\ UNCHANGED << glob_colors_cam_1, glob_colors_cam_2, is_valid, face_counts,
                    validated, attempt, success,
                    solver_initialized, orientations, i, lib_checks_centers, lutVars, posVars, ardVars, camVars, runVars >>

\* the loop has run out of orientations, and the engine is consulted all the same
LoopExhausted_SolveAnyway ==
    /\ pc = "loop"
    /\ ~ (i < Len(orientations))
    /\ engine_calls' = engine_calls + 1
    /\ solution' = MOVES
    /\ pc' = "returned"
    /\ UNCHANGED << glob_colors_cam_1, glob_colors_cam_2, orientation, cube_state,
                    is_valid, face_counts, validated, attempt, success, solver_initialized, orientations, i, tried,
                    selected, lib_checks_centers, lutVars, posVars, ardVars, camVars, runVars >>

\* the loop has run out of orientations: return ERROR_NO_ORIENTATION
LoopExhausted ==
    /\ pc = "loop"
    /\ ~ (i < Len(orientations))
    /\ solution' = ERROR_NO_ORIENTATION
    /\ pc' = "returned"
    /\ UNCHANGED << glob_colors_cam_1, glob_colors_cam_2, orientation, cube_state,
                    is_valid, face_counts, validated, attempt, success, solver_initialized, orientations, i, tried,
                    selected, engine_calls, lib_checks_centers, lutVars, posVars, ardVars, camVars, runVars >>

\* if (solution.substr(0, 5) != "ERROR") { success = true; break; } else ...
HandleSolution ==
    /\ pc = "returned"
    /\ IF IsSolution(solution)
       THEN success' = TRUE /\ reported' = "success" /\ pc' = "done"
       ELSE success' = success /\ reported' = reported /\ pc' = "next"
    /\ UNCHANGED << glob_colors_cam_1, glob_colors_cam_2, orientation, cube_state,
                    is_valid, face_counts, validated, attempt,
                    solver_initialized, orientations, i, tried, selected,
                    engine_calls, solution, lib_checks_centers, lutVars, posVars, ardVars, camVars,
                    mode, captures >>

\* the attempt loop running while attempt <= 3 + 1
NextAttempt_OneMore ==
    /\ pc = "next"
    /\ IF attempt <= MaxAttempts
       THEN /\ attempt' = attempt + 1
            /\ pc' = "capture"
            /\ orientation' = 0
            /\ cube_state' = NoString
            /\ is_valid' = FALSE
            /\ face_counts' = NoCounts
            /\ validated' = FALSE
            /\ orientations' = << >>
            /\ i' = 0
            /\ tried' = << >>
            /\ selected' = 0
            /\ engine_calls' = 0
            /\ solution' = "none"
            /\ reported' = reported
            /\ UNCHANGED << points_cam_1, points_cam_2 >>
       ELSE /\ pc' = "done"
            /\ reported' = IF mode = "s" /\ ~ success THEN "failure" ELSE reported
            /\ UNCHANGED << attempt, orientation, cube_state, is_valid, face_counts,
                            validated, orientations, i, tried, selected,
                            engine_calls, solution, points_cam_1, points_cam_2 >>
    /\ UNCHANGED << glob_colors_cam_1, glob_colors_cam_2, success,
                    solver_initialized, lib_checks_centers, lutVars, posVars, ardVars,
                    global_frame_1, global_frame_2, global_hsv_1, global_hsv_2,
                    t1, t2, k1, k2, scene, losses, mode, captures >>

\* the attempt loop calling load_position again before each retry
NextAttempt_Reposition ==
    /\ pc = "next"
    /\ IF attempt < MaxAttempts
       THEN /\ attempt' = attempt + 1
            /\ pc' = "capture"
            /\ orientation' = 0
            /\ cube_state' = NoString
            /\ is_valid' = FALSE
            /\ face_counts' = NoCounts
            /\ validated' = FALSE
            /\ orientations' = << >>
            /\ i' = 0
            /\ tried' = << >>
            /\ selected' = 0
            /\ engine_calls' = 0
            /\ solution' = "none"
            /\ reported' = reported
            /\ points_cam_1' = points_cam_1 \o ScenePoints(scene[1])
            /\ points_cam_2' = points_cam_2 \o ScenePoints(scene[2])
       ELSE /\ pc' = "done"
            /\ reported' = IF mode = "s" /\ ~ success THEN "failure" ELSE reported
            /\ UNCHANGED << attempt, orientation, cube_state, is_valid, face_counts,
                            validated, orientations, i, tried, selected,
                            engine_calls, solution, points_cam_1, points_cam_2 >>
    /\ UNCHANGED << glob_colors_cam_1, glob_colors_cam_2, success,
                    solver_initialized, lib_checks_centers, lutVars, posVars, ardVars,
                    global_frame_1, global_frame_2, global_hsv_1, global_hsv_2,
                    t1, t2, k1, k2, scene, losses, mode, captures >>

\* the end of a failed attempt: the locals of the loop body and of the calls it
\* made are gone; attempt++, and after the third the loop is left; mode 's' then
\* prints "Failed to solve cube after 3 attempts" since success is still false
NextAttempt ==
    /\ pc = "next"
    /\ IF attempt < MaxAttempts
       THEN /\ attempt' = attempt + 1
            /\ pc' = "capture"
            /\ orientation' = 0
            /\ cube_state' = NoString
            /\ is_valid' = FALSE
            /\ face_counts' = NoCounts
            /\ validated' = FALSE
            /\ orientations' = << >>
            /\ i' = 0
            /\ tried' = << >>
            /\ selected' = 0
            /\ engine_calls' = 0
            /\ solution' = "none"
            /\ reported' = reported
            /\ UNCHANGED << points_cam_1, points_cam_2 >>
       ELSE /\ pc' = "done"
            /\ reported' = IF mode = "s" /\ ~ success THEN "failure" ELSE reported
            /\ UNCHANGED << attempt, orientation, cube_state, is_valid, face_counts,
                            validated, orientations, i, tried, selected,
                            engine_calls, solution, points_cam_1, points_cam_2 >>
    /\ UNCHANGED << glob_colors_cam_1, glob_colors_cam_2, success,
                    solver_initialized, lib_checks_centers, lutVars, posVars, ardVars,
                    global_frame_1, global_frame_2, global_hsv_1, global_hsv_2,
                    t1, t2, k1, k2, scene, losses, mode, captures >>

Next ==
    \/ EnterBenchmarkMode
    \/ EnterDetectionMode
    \/ EnterSolveMode
    \/ parallel_benchmark
    \/ benchmark
    \/ detect_cam_1
    \/ detect_cam_2
    \/ DetectionResult
    \/ ValidatePhase
    \/ GeneratePhase
    \/ SolveEnter
    \/ LoopContinue
    \/ LoopSolve
    \/ LoopExhausted
    \/ HandleSolution
    \/ NextAttempt

Spec == Init /\ [][Next]_vars

\* main() keeps running, the two detect threads are scheduled and every camera
\* capture returns: a step that can be taken is taken
LiveSession == SessionInit /\ [][Next]_vars /\ WF_vars(Next)

\* the same sessions, for the properties of every finite run
SpecSession == SessionInit /\ [][Next]_vars

-----------------------------------------------------------------------------
(* Properties of generateFaceString and validateCube (under SpecAsm)         *)

\* a generateFaceString call has returned for the current labels
Generated == orientation # 0

\* the orientation that call was given
UsedOrientation == generateAllOrientations[orientation]

\* label vector of camera cam (1..2) and the letter the used orientation
\* assigns to slot k (0..2) of that camera
LabelsOf(cam) == IF cam = 1 THEN glob_colors_cam_1 ELSE glob_colors_cam_2
SlotLetter(cam, k) ==
    IF cam = 1 THEN UsedOrientation.cam1_faces[k + 1]
               ELSE UsedOrientation.cam2_faces[k + 1]

\* position (1-based) of the 54-character string that entry g (0..23) of a
\* camera's vector fills under the used orientation
FilledPos(cam, g) == NonCenterPos(SlotLetter(cam, g \div 8), g % 8)

\* C1: under the identity orientation, with camera-1 labels 8x Red, 8x Green,
\* 8x White and camera-2 labels 8x Orange, 8x Blue, 8x Yellow, generateFaceString
\* returns the solved string UUUUUUUUURRRRRRRRRFFFFFFFFFDDDDDDDDDLLLLLLLLLBBBBBBBBB.
C1_FaceCenterLabelsGiveSolved ==
    ( /\ Generated
      /\ UsedOrientation = default_orientation
      /\ << glob_colors_cam_1, glob_colors_cam_2 >> = FaceCenterLabels )
    => cube_state = SolvedCube

\* C2: for every catalog orientation and every pair of label vectors, the
\* translated labels c[8k..8k+7] of camera c, slot k stand, in that order, at the
\* 8 non-centre positions (local 0,1,2,3,5,6,7,8) of the block of the letter the
\* orientation assigns to that slot, blocks ordered U, R, F, D, L, B.
C2_SlotsFillBlocks ==
    Generated =>
        \A cam \in 1..2, k \in 0..2, j \in 0..7 :
            cube_state[NonCenterPos(SlotLetter(cam, k), j)]
                = colorToFace(LabelsOf(cam)[8 * k + j + 1])

C2_Witness ==
    /\ orientation = 24
    /\ glob_colors_cam_2[24] = "N"
    /\ glob_colors_cam_1[1] # glob_colors_cam_1[8]
    /\ cube_state[NonCenterPos("L", 7)] = "N"
    /\ cube_state[NonCenterPos("B", 0)] = colorToFace(glob_colors_cam_1[1])
    /\ cube_state[NonCenterPos("B", 7)] = colorToFace(glob_colors_cam_1[8])

\* C3: the characters at indices 4, 13, 22, 31, 40, 49 of the returned string
\* are the orientation's letters for camera-1 slots 0,1,2 and camera-2 slots
\* 0,1,2, whatever the label vectors hold.
C3_CentersFromOrientation ==
    Generated =>
        /\ cube_state[4 + 1]  = SlotLetter(1, 0)
        /\ cube_state[13 + 1] = SlotLetter(1, 1)
        /\ cube_state[22 + 1] = SlotLetter(1, 2)
        /\ cube_state[31 + 1] = SlotLetter(2, 0)
        /\ cube_state[40 + 1] = SlotLetter(2, 1)
        /\ cube_state[49 + 1] = SlotLetter(2, 2)

C3_Witness ==
    /\ orientation = 10
    /\ glob_colors_cam_1[5] = NUL
    /\ cube_state[13 + 1] = "F"
    /\ cube_state[49 + 1] = "B"
    /\ cube_state[13 + 2] # "F"

\* C4: the returned string has exactly 54 characters; every non-centre position
\* is filled by exactly one label, and holds 'N' if and only if that label is
\* not one of the six colours W,R,O,Y,G,B.
C4_UnknownIffUnresolved ==
    Generated =>
        /\ Len(cube_state) = 54
        /\ LET filled == { FilledPos(w[1], w[2]) : w \in (1..2) \X (0..23) }
           IN  /\ Cardinality(filled) = 48
               /\ filled = (1..54) \ { CenterPos(b) : b \in 0..5 }
        /\ \A cam \in 1..2, g \in 0..23 :
              (cube_state[FilledPos(cam, g)] = "N") <=> (LabelsOf(cam)[g + 1] \notin ColorSet)

C4_Witness ==
    /\ orientation = 5
    /\ glob_colors_cam_1[9] = NUL
    /\ glob_colors_cam_1[10] \in ColorSet
    /\ cube_state[NonCenterPos("R", 0)] = "N"
    /\ cube_state[NonCenterPos("R", 1)] # "N"

\* occurrences of letter c among the 48 translated labels and the six centres
Occurrences(c) ==
    Cardinality({ w \in (1..2) \X (1..24) : colorToFace(LabelsOf(w[1])[w[2]]) = c })
        + Cardinality({ b \in 0..5 : FaceLetters[b + 1] = c })

\* C5: validateCube returns true if and only if each of U,R,F,D,L,B occurs
\* exactly 9 times among the 48 translated labels plus the six centres and
\* Unknown occurs 0 times; with exactly one label Unknown it returns false and
\* the Unknown count is 1.
C5_ValidIffNineEach ==
    validated =>
        /\ is_valid <=> ( /\ \A c \in FaceSet : Occurrences(c) = 9
                          /\ Occurrences("N") = 0 )
        /\ Occurrences("N") = 1 => (~ is_valid /\ face_counts["N"] = 1)

C5_Witness ==
    /\ validated
    /\ glob_colors_cam_2[17] = "N"
    /\ ~ is_valid
    /\ face_counts["N"] = 1
    /\ \E c \in FaceSet : face_counts[c] = 8

-----------------------------------------------------------------------------
(* Properties of the catalog and of the orientation search (under Spec)      *)

\* generateAllOrientations has just returned the catalog to
\* solveWithMultipleOrientations
CatalogInUse == pc = "loop" /\ i = 0

Opposite(face) ==
    CASE face = "U" -> "D" [] face = "D" -> "U" [] face = "R" -> "L"
      [] face = "L" -> "R" [] face = "F" -> "B" [] face = "B" -> "F"

\* axis (1: U/D, 2: R/L, 3: F/B) and direction along it of a face
Axis(face) == IF face \in { "U", "D" } THEN 1 ELSE IF face \in { "R", "L" } THEN 2 ELSE 3
Direction(face) == IF face \in { "U", "R", "F" } THEN 1 ELSE -1

\* sign of the arrangement (a, b, c) of the three axes: 1 even, -1 odd, 0 none
AxisSign(a, b, c) ==
    IF << a, b, c >> \in { << 1, 2, 3 >>, << 2, 3, 1 >>, << 3, 1, 2 >> } THEN 1
    ELSE IF << a, b, c >> \in { << 1, 3, 2 >>, << 3, 2, 1 >>, << 2, 1, 3 >> } THEN -1
    ELSE 0

\* handedness of the frame (up, right, front): that of (U, R, F) is 1
Handedness(up, right, front) ==
    Direction(up) * Direction(right) * Direction(front)
        * AxisSign(Axis(up), Axis(right), Axis(front))

IsRotation(o) ==
    /\ o.cam2_faces[1] = Opposite(o.cam1_faces[1])
    /\ o.cam2_faces[2] = Opposite(o.cam1_faces[2])
    /\ o.cam2_faces[3] = Opposite(o.cam1_faces[3])
    /\ Handedness(o.cam1_faces[1], o.cam1_faces[2], o.cam1_faces[3])
          = Handedness("U", "R", "F")

\* every rotation of the cube, as an assignment of letters to the six slots
RotationGroup ==
    { o \in { CubeOrientation(f[1], f[2], f[3],
                              Opposite(f[1]), Opposite(f[2]), Opposite(f[3])) :
                 f \in FaceSet \X FaceSet \X FaceSet } :
        IsRotation(o) }

\* C6: every entry of generateAllOrientations is a rotation of the cube:
\* opposite slots (cam1[k] / cam2[k]) hold opposite faces and the handedness of
\* (up, right, front) is that of (U, R, F); together the entries are the whole
\* rotation group.
C6_CatalogIsRotationGroup ==
    CatalogInUse =>
        /\ \A n \in 1..Len(orientations) : IsRotation(orientations[n])
        /\ { orientations[n] : n \in 1..Len(orientations) } = RotationGroup

\* C7: generateAllOrientations returns exactly 24 entries, pairwise distinct,
\* each assigning the six letters bijectively to the six slots, and the
\* identity (U,R,F | D,L,B) is the first entry.
C7_CatalogDistinctIdentityFirst ==
    CatalogInUse =>
        /\ Len(orientations) = 24
        /\ \A m, n \in 1..Len(orientations) : m # n => orientations[m] # orientations[n]
        /\ \A n \in 1..Len(orientations) :
              { orientations[n].cam1_faces[k] : k \in 1..3 }
                  \cup { orientations[n].cam2_faces[k] : k \in 1..3 } = FaceSet
        /\ orientations[1] = default_orientation
        /\ orientations[1] = CubeOrientation("U", "R", "F", "D", "L", "B")

C7_Witness ==
    /\ CatalogInUse
    /\ Len(orientations) = 24
    /\ orientations[24] = CubeOrientation("B", "R", "U", "F", "D", "L")
    /\ glob_colors_cam_1 # InitialLabels[1]

\* the string generateFaceString assembles for catalog entry n from the labels
Assembled(n) ==
    generateFaceString(orientations[n], glob_colors_cam_1, glob_colors_cam_2)

\* catalog entries whose assembled string passes the pre-check
Passing == { n \in 1..Len(orientations) : PreCheck(Assembled(n), lib_checks_centers) }

\* the search has ended (the call has returned from or past its loop)
SearchEnded == pc = "returned" /\ orientations # << >>

C9_ExhaustedIsFailure ==
    /\ SearchEnded =>
          ( Passing = { } <=> ( /\ solution = ERROR_NO_ORIENTATION
                                /\ Len(tried) = 24
                                /\ engine_calls = 0 ) )
    /\ solution = ERROR_NO_ORIENTATION =>
          /\ engine_calls = 0 /\ selected = 0 /\ ~ success
          /\ pc \in { "returned", "next", "done" }
          /\ pc = "done" => attempt = MaxAttempts

C9_Witness ==
    /\ pc = "done"
    /\ attempt = 3
    /\ solution = ERROR_NO_ORIENTATION
    /\ Len(tried) = 24
    /\ ~ success

\* C10: round trip: for every catalog orientation o and every noise-free label
\* set read from a valid cube seated in orientation o, the search over the 24
\* entries selects o.
C10_RoundTrip ==
    SearchEnded =>
        \A n \in 1..Len(orientations), cube \in Cubes :
            << glob_colors_cam_1, glob_colors_cam_2 >> = Seated(orientations[n], cube)
                => selected = n

-----------------------------------------------------------------------------
(* Properties of load_lut_from_file (under SpecLut)                          *)

\* the table has been built from the rules of a file that could be opened
LutLoaded == lut_pc = "loaded" /\ lut_file.open

\* (h, s, v) lies inside the H, S and V ranges of the rule; the H range of a
\* red rule with h_min > h_max is the pair of ranges h >= h_min and h <= h_max
Covers(rule, c) ==
    /\ IF rule.color = "R" /\ rule.h_min > rule.h_max
       THEN c[1] >= rule.h_min \/ c[1] <= rule.h_max
       ELSE c[1] >= rule.h_min /\ c[1] <= rule.h_max
    /\ rule.s_min <= c[2] /\ c[2] <= rule.s_max
    /\ rule.v_min <= c[3] /\ c[3] <= rule.v_max

\* the lines of the file whose rule covers the cell
CoveringLines(c) == { r \in 1..Len(lut_file.rules) : Covers(lut_file.rules[r], c) }

\* C18 as stated: once the table is built from a list of rules, every cell
\* inside a rule's H, S and V ranges classifies as that rule's label, for every
\* rule of the list.
C18_CoveredCellClassifiesAsRule ==
    LutLoaded =>
        \A r \in 1..Len(lut_file.rules) : \A c \in Cells :
            Covers(lut_file.rules[r], c) => find_color_lut(color_lut, c) = lut_file.rules[r].color

\* C18 amended: once the table is built from a list of rules, every cell inside
\* a rule's H, S and V ranges classifies as that rule's label, for every rule of
\* the list that no later rule of the list covers at that cell.
C18_UncoveredLaterClassifiesAsRule ==
    LutLoaded =>
        \A r \in 1..Len(lut_file.rules) : \A c \in Cells :
            (Covers(lut_file.rules[r], c) /\ \A q \in (r + 1)..Len(lut_file.rules) : ~ Covers(lut_file.rules[q], c))
                => find_color_lut(color_lut, c) = lut_file.rules[r].color

\* a table built from the default red and orange rules: hue 0 is covered by
\* red alone and classifies as red, hue 9 by both
C18_Witness ==
    /\ LutLoaded
    /\ lut_file.rules = << default_ranges[2], default_ranges[3] >>
    /\ CoveringLines(<< 0, 255, 255 >>) = { 1 }
    /\ find_color_lut(color_lut, << 0, 255, 255 >>) = "R"
    /\ CoveringLines(<< 9, 255, 255 >>) = { 1, 2 }

\* C19: when several rules cover the same cell, the cell's label after
\* load_lut_from_file is the label of the last covering rule in file order.
C19_LastCoveringRuleWins ==
    LutLoaded =>
        \A c \in Cells :
            CoveringLines(c) # {} =>
                color_lut[c] = lut_file.rules[Max(CoveringLines(c))].color

\* a cell covered by two rules of different labels, carrying the second one
C19_Witness ==
    /\ LutLoaded
    /\ \E c \in Cells :
          /\ CoveringLines(c) = { 1, 2 }
          /\ lut_file.rules[1].color # lut_file.rules[2].color
          /\ color_lut[c] = lut_file.rules[2].color

\* the rule of the line just read is a red rule with h_min > h_max
RedWrapLine(n) ==
    /\ n >= 1
    /\ lut_file.rules[n].color = "R"
    /\ lut_file.rules[n].h_min > lut_file.rules[n].h_max

\* C20: reading a red rule with h_min > h_max turns a cell red exactly when
\* (h >= h_min or h <= h_max) and s, v are inside the rule's ranges; every
\* other cell, the hues strictly between h_max and h_min among them, keeps the
\* label it had.
C20_RedWrapIsDisjunction ==
    [][ (lut_pc = "reading" /\ lut_line' = lut_line + 1 /\ RedWrapLine(lut_line + 1))
          => LET rule == lut_file.rules[lut_line + 1]
             IN  \A c \in Cells :
                   IF /\ (c[1] >= rule.h_min \/ c[1] <= rule.h_max)
                      /\ rule.s_min <= c[2] /\ c[2] <= rule.s_max
                      /\ rule.v_min <= c[3] /\ c[3] <= rule.v_max
                   THEN color_lut'[c] = "R"
                   ELSE color_lut'[c] = color_lut[c] ]_vars

\* a red rule with h_min = 15 > h_max = 9 has been read after the default
\* orange rule: hue 10 is still orange, hues 9 and 15 are red
C20_Witness ==
    /\ lut_pc = "reading"
    /\ lut_line = 2
    /\ RedWrapLine(2)
    /\ lut_file.rules[1] = default_ranges[3]
    /\ color_lut[<< 10, 255, 255 >>] = "O"
    /\ color_lut[<< 9, 255, 255 >>] = "R"
    /\ color_lut[<< 15, 255, 255 >>] = "R"
    /\ color_lut[<< 179, 255, 255 >>] = "R"

-----------------------------------------------------------------------------
(* Properties of detect_cam_1 / detect_cam_2 (under SpecDetect)              *)

\* point n + 1 of the list lies inside the frame: 0 <= x < cols, 0 <= y < rows
InsideFrame(frame, points, n) ==
    /\ 0 <= points[n + 1].x /\ points[n + 1].x < frame.cols
    /\ 0 <= points[n + 1].y /\ points[n + 1].y < frame.rows

AllUnknown(colors) == \A g \in 1..Len(colors) : colors[g] = "N"

\* C14: in every capture attempt, retries after an earlier capture included,
\* once detect_cam_1 / detect_cam_2 has returned from an empty frame all 24
\* entries of that camera's label vector are Unknown ('N').
C14_EmptyFrameGivesUnknown ==
    /\ (t1 = "done" /\ empty(global_frame_1))
          => (Len(glob_colors_cam_1) = 24 /\ AllUnknown(glob_colors_cam_1))
    /\ (t2 = "done" /\ empty(global_frame_2))
          => (Len(glob_colors_cam_2) = 24 /\ AllUnknown(glob_colors_cam_2))

\* the labels point by point: 'N' outside the frame, otherwise the table entry
\* of the HSV value of the frame's pixel at the point
LabelsFollowPoints(colors, frame, points) ==
    /\ Len(colors) = Len(points)
    /\ \A n \in 0..(Len(points) - 1) :
          colors[n + 1] =
             IF InsideFrame(frame, points, n)
             THEN color_lut[BGR2HSV(frame.at[<< points[n + 1].x, points[n + 1].y >>])]
             ELSE "N"

\* C15: after detect_cam_N has run on a non-empty frame, label i is 'N' if
\* point i lies outside 0 <= x < cols, 0 <= y < rows and otherwise the lookup
\* table entry of the HSV pixel at that point, for every point index i; the
\* vector has one entry per point, so a point outside the frame changes no
\* other point's label.
C15_LabelsFollowPointsInFrame ==
    /\ (t1 = "done" /\ ~ empty(global_frame_1))
          => LabelsFollowPoints(glob_colors_cam_1, global_frame_1, points_cam_1)
    /\ (t2 = "done" /\ ~ empty(global_frame_2))
          => LabelsFollowPoints(glob_colors_cam_2, global_frame_2, points_cam_2)

\* camera 1 has sampled a frame with its first point left of the frame and its
\* last below it, on a retry: both are 'N', their neighbours are colours
C15_Witness ==
    /\ t1 = "done"
    /\ attempt = 2
    /\ ~ empty(global_frame_1)
    /\ ~ InsideFrame(global_frame_1, points_cam_1, 0)
    /\ ~ InsideFrame(global_frame_1, points_cam_1, 23)
    /\ glob_colors_cam_1[1] = "N"
    /\ glob_colors_cam_1[24] = "N"
    /\ glob_colors_cam_1[3] \in ColorSet
    /\ glob_colors_cam_1[22] \in ColorSet

\* HSV buffer and labels of a camera when the attempt's capture was called
Before(cam) ==
    IF attempt = 1
    THEN [ hsv |-> init_mat, colors |-> InitialLabels[cam] ]
    ELSE detect_cam(SceneFrame(scene[cam]), init_mat,
                    IF cam = 1 THEN points_cam_1 ELSE points_cam_2,
                    color_lut, InitialLabels[cam])

\* the two label vectors benchmark() leaves for the two captured frames:
\* detect_cam_1 run to its end, then detect_cam_2
SequentialLabels ==
    << detect_cam(global_frame_1, Before(1).hsv, points_cam_1, color_lut,
                  Before(1).colors).colors,
       detect_cam(global_frame_2, Before(2).hsv, points_cam_2, color_lut,
                  Before(2).colors).colors >>

\* C16: for the same two captured frames, every interleaving of the two
\* threads of parallel_benchmark (and the calls of benchmark itself) leaves the
\* two label vectors that detect_cam_1 followed by detect_cam_2 leaves.
C16_ParallelEqualsSequential ==
    pc = "validate" => << glob_colors_cam_1, glob_colors_cam_2 >> = SequentialLabels

\* parallel_benchmark has returned with both frames captured and two different
\* label vectors, on a retry
C16_Witness ==
    /\ pc = "validate"
    /\ mode = "j"
    /\ attempt = 2
    /\ ~ empty(global_frame_1)
    /\ ~ empty(global_frame_2)
    /\ glob_colors_cam_1 # glob_colors_cam_2
    /\ glob_colors_cam_1 = Before(1).colors
    /\ \E g \in 1..24 : glob_colors_cam_1[g] = "N"

-----------------------------------------------------------------------------
(* Properties of a detection session: modes 'b', 'j' and 's' (under         *)
(* SpecSession, and under LiveSession where the session has to end)          *)

\* a detect thread (or call) that has started and not yet returned
Running(t) == t \in { "capture", "convert", "sample" }

\* C11: a detection session makes at most 3 capture attempts, makes no further
\* capture once an attempt has succeeded, and always ends, either in success or
\* in the failure reported after the third failed attempt.
C11_SessionEndsWithinThreeAttempts ==
    /\ [](captures <= MaxAttempts)
    /\ [][reported = "success" => captures' = captures]_vars
    /\ [](pc = "done" =>
            \/ reported = "success"
            \/ reported = "failure" /\ captures = MaxAttempts /\ attempt = MaxAttempts)
    /\ <>(pc = "done")

\* a solve session that failed its first attempt and succeeded on the second
C11_Witness ==
    /\ pc = "done"
    /\ mode = "s"
    /\ reported = "success"
    /\ captures = 2
    /\ attempt = 2

\* C12 as stated: after a solver error (the engine returned no solution for a
\* state that passed the pre-check) the session makes no further capture
\* attempt: the attempt loop is left with that error.
C12_SolverErrorNotRetried ==
    [][(pc = "next" /\ solution = ERROR_NO_SOLUTION) => pc' = "done"]_vars

C17_TablesFixedDuringSession ==
    [][pc # "menu" =>
          /\ color_lut' = color_lut
          /\ points_cam_1' = points_cam_1
          /\ points_cam_2' = points_cam_2]_vars

\* a capture thread of the second attempt is running: the table is the one the
\* set-up built and each list holds its 24 points
C17_Witness ==
    /\ attempt = 2
    /\ Running(t1)
    /\ lut_pc = "loaded"
    /\ color_lut = load_lut_from_file(lut_file)
    /\ Len(points_cam_1) = 24
    /\ Len(points_cam_2) = 24

-----------------------------------------------------------------------------
(* Centres and letter counts of the assembled string (under SpecAsm)         *)

\* C25 as stated: under every catalog orientation the block that receives the
\* 8 samples of a slot also receives that slot's letter as its centre, so the
\* centre of every 9-character block is the block's own letter.
C25_CentreIsBlockLetter ==
    Generated =>
        /\ \A cam \in 1..2, k \in 0..2 :
              cube_state[CenterPos(BlockOf(SlotLetter(cam, k)))] = SlotLetter(cam, k)
        /\ \A b \in 0..5 : cube_state[CenterPos(b)] = FaceLetters[b + 1]

\* occurrences of letter c in a 54-character string
LetterCount(str, c) == Cardinality({ p \in 1..Len(str) : str[p] = c })

\* C26: the letter counts of the assembled string are those of the translated
\* labels plus one centre per face, whatever catalog orientation assembled it,
\* and validateCube returns true exactly when the string has 9 of every letter.
C26_CountsIgnoreOrientation ==
    Generated =>
        /\ \A c \in FaceSet \cup { "N" } : LetterCount(cube_state, c) = Occurrences(c)
        /\ validated =>
              (is_valid <=> \A c \in FaceSet : LetterCount(cube_state, c) = 9)

\* the last catalog entry has assembled a string from valid labels, and
\* validateCube has accepted them
C26_Witness ==
    /\ orientation = 24
    /\ validated
    /\ is_valid
    /\ cube_state[4 + 1] = "B"
    /\ \A c \in FaceSet : LetterCount(cube_state, c) = 9

-----------------------------------------------------------------------------
(* The cells no rule covers, the missing file, malformed lines and the       *)
(* bounds of the table (under SpecLut and SpecLutLines)                      *)

\* C21 as stated: in the table built from a calibration file, every cell
\* covered by no rule keeps the label the hardcoded default table gives it.
C21_UncoveredKeepsDefault ==
    LutLoaded =>
        \A c \in Cells : CoveringLines(c) = { } => color_lut[c] = init_lut[c]

\* C21, amended: in the table built from a calibration file, a rule
\* overwrites only the cells it covers, and every cell covered by no rule holds
\* 'N', the label the table is cleared to before the first rule is applied.
C21_UncoveredIsUnknown ==
    LutLoaded =>
        \A c \in Cells : CoveringLines(c) = { } => color_lut[c] = "N"

\* a file has been loaded that leaves uncovered a cell the hardcoded table
\* labels, beside a cell one of its rules covers
C21_Witness ==
    /\ LutLoaded
    /\ \E c \in Cells :
          CoveringLines(c) = { } /\ init_lut[c] # "N" /\ color_lut[c] = "N"
    /\ \E c \in Cells : CoveringLines(c) # { } /\ color_lut[c] # "N"

\* C22: when range.txt cannot be opened, load_lut_from_file leaves the
\* hardcoded default table of init_lut in every cell.
C22_MissingFileGivesDefaults ==
    (lut_pc = "loaded" /\ ~ lut_file.open) => color_lut = init_lut

\* the load of a missing file has returned, with cells of several labels
C22_Witness ==
    /\ lut_pc = "loaded"
    /\ ~ lut_file.open
    /\ color_lut[<< 0, 0, 255 >>] = "W"
    /\ color_lut[<< 120, 255, 255 >>] = "B"
    /\ color_lut[<< 60, 255, 0 >>] = "N"

\* C23 as stated: processing a line that does not parse as a character
\* followed by six integers leaves every cell of the table unchanged.
C23_MalformedLineIgnored ==
    [][ ( /\ lut_pc = "reading"
          /\ lut_line' = lut_line + 1
          /\ lut_file.rules[lut_line + 1].parsed < 7 )
        => color_lut' = color_lut ]_vars

\* C30 as stated: whatever values the rules hold, load_lut_from_file writes
\* no cell outside h in 0..179, s in 0..255, v in 0..255.
C30_WritesStayInTable == lut_stray = { }

-----------------------------------------------------------------------------
(* Position calibration (mode 'c') and the two loaders of position files     *)

\* 'r' and SPACE keys pressed in one run of the program
MaxKeys == 1

\* runs of the program over the same files
MaxRuns == 2

\* lines a position file may hold when a calibration is started over it
MaxOldLines == 2

\* values an int declared without initialiser may hold
IndeterminateInts == { 0, 7 }

\* the tokens of n lines "x y", the line of slot g holding the point (g - 1, 0)
Lines(n) == [ t \in 1..(2 * n) |-> Tok(IF t % 2 = 1 THEN (t - 1) \div 2 ELSE 0) ]

\* pos_1.txt and pos_2.txt as a run of the program may find them: missing,
\* left by an abandoned calibration, complete with 24 lines, one line short,
\* with a token that is no number, and with 27 lines
PosInputs ==
    { << NoPosFile, NoPosFile >>,
      << PosFile(Lines(MaxOldLines)), NoPosFile >>,
      << PosFile(Lines(24)), PosFile(Lines(24)) >>,
      << PosFile(Lines(23)), PosFile(Lines(24)) >>,
      << PosFile([ Lines(24) EXCEPT ![5] = BadTok ]), PosFile(Lines(24)) >>,
      << PosFile(Lines(24)), NoPosFile >>,
      << PosFile(Lines(27)), PosFile(Lines(27)) >> }

\* std::ifstream in(filename): the read position, and failbit when the file
\* could not be opened
Opened(file) == [ pos |-> 1, fail |-> ~ file.open ]

\* in >> v: nothing is read once failbit is set or at the end of the file, and
\* v keeps its value; a token that is no number stores 0 and sets failbit
Extract(file, rd, v) ==
    IF rd.fail \/ rd.pos > Len(file.tokens)
    THEN [ pos |-> rd.pos, fail |-> TRUE, val |-> v ]
    ELSE IF ~ file.tokens[rd.pos].num
    THEN [ pos |-> rd.pos, fail |-> TRUE, val |-> 0 ]
    ELSE [ pos |-> rd.pos + 1, fail |-> FALSE, val |-> file.tokens[rd.pos].val ]

\* n more iterations of { in >> x >> y; points.emplace_back(x, y); }
RECURSIVE ReadPoints(_, _, _, _, _, _)
ReadPoints(file, rd, x, y, n, points) ==
    IF n = 0 THEN [ points |-> points, x |-> x, y |-> y ]
    ELSE LET ex == Extract(file, rd, x)
             ey == Extract(file, [ pos |-> ex.pos, fail |-> ex.fail ], y)
         IN  ReadPoints(file, [ pos |-> ey.pos, fail |-> ey.fail ], ex.val, ey.val,
                        n - 1, Append(points, Point(ex.val, ey.val)))

\* load_position(filename_1, filename_2): what it appends to points_cam_1 and
\* points_cam_2, x and y holding x0 and y0 before the first extraction
load_position(file_1, file_2, x0, y0) ==
    LET r1 == ReadPoints(file_1, Opened(file_1), x0, y0, 24, << >>)
        r2 == ReadPoints(file_2, Opened(file_2), r1.x, r1.y, 24, << >>)
    IN  << r1.points, r2.points >>

\* n more iterations of
\* if (file >> x >> y) points.emplace_back(x, y); else return false;
RECURSIVE ReadChecked(_, _, _, _)
ReadChecked(file, rd, n, points) ==
    IF n = 0 THEN [ ok |-> TRUE, points |-> points ]
    ELSE LET ex == Extract(file, rd, 0)
             ey == Extract(file, [ pos |-> ex.pos, fail |-> ex.fail ], 0)
         IN  IF ey.fail THEN [ ok |-> FALSE, points |-> points ]
             ELSE ReadChecked(file, [ pos |-> ey.pos, fail |-> FALSE ], n - 1,
                              Append(points, Point(ex.val, ey.val)))

\* ArduinoStyleDetection::loadPositions(pos1_file, pos2_file): its return value
\* and the two point lists it leaves, given the lists it found
loadPositions(file_1, file_2, points_1, points_2) ==
    IF ~ file_1.open
    THEN [ ok |-> FALSE, camera_1 |-> points_1, camera_2 |-> points_2 ]
    ELSE LET r1 == ReadChecked(file_1, Opened(file_1), 27, << >>)
         IN  IF ~ r1.ok \/ ~ file_2.open
             THEN [ ok |-> FALSE, camera_1 |-> r1.points, camera_2 |-> points_2 ]
             ELSE LET r2 == ReadChecked(file_2, Opened(file_2), 27, << >>)
                  IN  [ ok |-> r2.ok, camera_1 |-> r1.points, camera_2 |-> r2.points ]

\* the program at its menu, with one of the given pairs of position files
PosStart(pairs) ==
    /\ IdleLabels
    /\ lib_checks_centers = FALSE
    /\ IdleSession
    /\ IdleCameras
    /\ IdleRun
    /\ IdleLut
    /\ IdleArd
    /\ IdleStatics
    /\ runs = 1
    /\ pos_pc = "menu"
    /\ \E pair \in pairs : pos_1 = pair[1] /\ pos_2 = pair[2]

PosInit == PosStart(PosInputs)

\* what no step of mode 'c', of load_position or of loadPositions writes
besideVars == << asmVars, sessionVars, lutVars, runVars,
                 global_frame_1, global_frame_2, global_hsv_1, global_hsv_2,
                 t1, t2, k1, k2, scene, losses,
                 reference_colors, frame1, frame2, ard_cube_state, result >>

\* calibratePosition(filename) up to its loop: current_click = 0;
\* current_face = 0 or 3; current_facelet = 0; clicked_points.clear();
StartCalibration(face) ==
    /\ current_click' = 0
    /\ current_face' = face
    /\ current_facelet' = 0
    /\ clicked_points' = << >>
    /\ written' = 0

\* if (k == 'c'): camera_1->calibratePosition("pos_1.txt"), whose
\* position_out_file.open(filename, std::ios::app) keeps the lines of the file
EnterCalibrationMode ==
    /\ pos_pc = "menu"
    /\ runs = 1
    /\ Len(pos_1.tokens) <= 2 * MaxOldLines
    /\ Len(pos_2.tokens) <= 2 * MaxOldLines
    /\ pos_1' = PosFile(pos_1.tokens)
    /\ StartCalibration(0)
    /\ pos_pc' = "cal_1"
    /\ UNCHANGED << pos_2, keys, runs, points_cam_1, points_cam_2,
                    camera_1_points, camera_2_points, besideVars >>

\* camera_2->calibratePosition("pos_2.txt")
CalibrateCamera2 ==
    /\ pos_pc = "cal_1_done"
    /\ pos_2' = PosFile(pos_2.tokens)
    /\ StartCalibration(3)
    /\ pos_pc' = "cal_2"
    /\ UNCHANGED << pos_1, keys, runs, points_cam_1, points_cam_2,
                    camera_1_points, camera_2_points, besideVars >>

Calibrating == pos_pc \in { "cal_1", "cal_2" }

\* the file the running calibratePosition call writes (current_position_file)
WriteLine(line) ==
    IF pos_pc = "cal_1"
    THEN pos_1' = PosFile(pos_1.tokens \o line) /\ pos_2' = pos_2
    ELSE pos_2' = PosFile(pos_2.tokens \o line) /\ pos_1' = pos_1

\* positionMouseCallback on EVENT_LBUTTONDOWN, inside cv::waitKey(30) of an
\* iteration of while (current_click < 24). The user clicks the point
\* (slot, lines written so far).
Click ==
    /\ Calibrating
    /\ current_click < 24
    /\ LET x == current_click
           y == written
       IN  /\ WriteLine(<< Tok(x), Tok(y) >>)
           /\ clicked_points' = Append(clicked_points, Point(x, y))
    /\ written' = written + 1
    /\ current_click' = current_click + 1
    /\ IF current_facelet + 1 >= 8
       THEN current_facelet' = 0 /\ current_face' = current_face + 1
       ELSE current_facelet' = current_facelet + 1 /\ current_face' = current_face
    /\ UNCHANGED << keys, runs, pos_pc, points_cam_1, points_cam_2,
                    camera_1_points, camera_2_points, besideVars >>

\* if (key == ' '): video_capture.read(frame);
Refresh ==
    /\ Calibrating
    /\ current_click < 24
    /\ keys < MaxKeys
    /\ keys' = keys + 1
    /\ UNCHANGED << pos_1, pos_2, current_click, current_face, current_facelet,
                    clicked_points, written, runs, pos_pc, points_cam_1, points_cam_2,
                    camera_1_points, camera_2_points, besideVars >>

\* else if (key == 'r' && current_facelet > 0): pop current_facelet points,
\* decrementing current_click with each; current_facelet = 0;
RestartFace ==
    /\ Calibrating
    /\ current_click < 24
    /\ keys < MaxKeys
    /\ current_facelet > 0
    /\ LET removed == Min({ current_facelet, Len(clicked_points) })
       IN  /\ clicked_points' = SubSeq(clicked_points, 1, Len(clicked_points) - removed)
           /\ current_click' = current_click - removed
    /\ current_facelet' = 0
    /\ keys' = keys + 1
    /\ UNCHANGED << pos_1, pos_2, current_face, written, runs, pos_pc,
                    points_cam_1, points_cam_2,
                    camera_1_points, camera_2_points, besideVars >>

\* the end of calibratePosition: position_out_file.close(); return true;
Returned == pos_pc' = IF pos_pc = "cal_1" THEN "cal_1_done" ELSE "cal_2_done"

\* else if (key == 'q') break;
Quit ==
    /\ Calibrating
    /\ current_click < 24
    /\ Returned
    /\ UNCHANGED << pos_1, pos_2, current_click, current_face, current_facelet,
                    clicked_points, written, keys, runs, points_cam_1, points_cam_2,
                    camera_1_points, camera_2_points, besideVars >>

\* while (current_click < 24) is left with all 24 points clicked
Complete ==
    /\ Calibrating
    /\ ~ (current_click < 24)
    /\ Returned
    /\ UNCHANGED << pos_1, pos_2, current_click, current_face, current_facelet,
                    clicked_points, written, keys, runs, points_cam_1, points_cam_2,
                    camera_1_points, camera_2_points, besideVars >>

\* a detection mode up to its loop: load_position("pos_1.txt", "pos_2.txt");
\* returns nothing
LoadPosition ==
    /\ pos_pc = "menu"
    /\ \E x0 \in IndeterminateInts, y0 \in IndeterminateInts :
          \E r \in { load_position(pos_1, pos_2, x0, y0) } :
              /\ points_cam_1' = points_cam_1 \o r[1]
              /\ points_cam_2' = points_cam_2 \o r[2]
    /\ pos_pc' = "loaded"
    /\ UNCHANGED << pos_1, pos_2, current_click, current_face, current_facelet,
                    clicked_points, written, keys, runs,
                    camera_1_points, camera_2_points, besideVars >>

\* the mode goes on to its detection loop with the lists load_position left
StartDetecting ==
    /\ pos_pc = "loaded"
    /\ pos_pc' = "detecting"
    /\ UNCHANGED << pos_1, pos_2, current_click, current_face, current_facelet,
                    clicked_points, written, keys, runs, points_cam_1, points_cam_2,
                    camera_1_points, camera_2_points, besideVars >>

\* else if (k == 'a'): if (!arduino_detector.loadPositions("pos_1.txt", "pos_2.txt"))
EnterArduinoMode ==
    /\ pos_pc = "menu"
    /\ \E r \in { loadPositions(pos_1, pos_2, camera_1_points, camera_2_points) } :
          /\ camera_1_points' = r.camera_1
          /\ camera_2_points' = r.camera_2
          /\ pos_pc' = IF r.ok THEN "ard_ready" ELSE "ard_failed"
    /\ UNCHANGED << pos_1, pos_2, current_click, current_face, current_facelet,
                    clicked_points, written, keys, runs, points_cam_1, points_cam_2,
                    besideVars >>

\* main() returns and the program is started again: the files stay, every
\* static and every object is as the start of a process leaves it
RunAgain ==
    /\ pos_pc \in { "cal_2_done", "detecting", "ard_ready", "ard_failed" }
    /\ runs < MaxRuns
    /\ runs' = runs + 1
    /\ pos_pc' = "menu"
    /\ current_click' = 0
    /\ current_face' = 0
    /\ current_facelet' = 0
    /\ clicked_points' = << >>
    /\ written' = 0
    /\ keys' = 0
    /\ points_cam_1' = << >>
    /\ points_cam_2' = << >>
    /\ camera_1_points' = << >>
    /\ camera_2_points' = << >>
    /\ UNCHANGED << pos_1, pos_2, besideVars >>

PosNext ==
    \/ EnterCalibrationMode
    \/ Click
    \/ Refresh
    \/ RestartFace
    \/ Quit
    \/ Complete
    \/ CalibrateCamera2
    \/ LoadPosition
    \/ StartDetecting
    \/ EnterArduinoMode
    \/ RunAgain

SpecPos == PosInit /\ [][PosNext]_vars

-----------------------------------------------------------------------------
(* Properties of the position files (under SpecPos)                          *)

\* the first 24 coordinate pairs of the file are there and are numbers
WellFormed(file) ==
    /\ file.open
    /\ Len(file.tokens) >= 48
    /\ \A t \in 1..48 : file.tokens[t].num

\* the file holds 24 coordinate pairs and nothing else
Exactly24(file) == WellFormed(file) /\ Len(file.tokens) = 48

\* the point of line g of the file
PointOfLine(file, g) == Point(file.tokens[2 * g - 1].val, file.tokens[2 * g].val)

\* C24 as stated: a position file that is malformed or holds fewer than 24
\* coordinate pairs is rejected at load; no detection session runs on point
\* lists taken from such a file, neither after load_position nor after
\* ArduinoStyleDetection::loadPositions.
C24_BadFileRejected ==
    pos_pc \in { "detecting", "ard_ready" } => (WellFormed(pos_1) /\ WellFormed(pos_2))

\* C27 as stated: position files of exactly 24 coordinate pairs are accepted
\* by both loaders: load_position leaves 24 points per camera, the points of
\* the file, and ArduinoStyleDetection::loadPositions returns true.
C27_BothLoadersAccept24 ==
    (Exactly24(pos_1) /\ Exactly24(pos_2)) =>
        /\ pos_pc = "loaded" =>
              /\ Len(points_cam_1) = 24
              /\ Len(points_cam_2) = 24
              /\ \A g \in 1..24 : /\ points_cam_1[g] = PointOfLine(pos_1, g)
                                  /\ points_cam_2[g] = PointOfLine(pos_2, g)
        /\ pos_pc # "ard_failed"

\* the file of the running or last calibratePosition call
CalFile == IF pos_pc \in { "cal_1", "cal_1_done" } THEN pos_1 ELSE pos_2

\* C28 as stated: during a calibratePosition run, after any clicks, 'r'
\* restarts and refreshes, the lines written in the run number current_click,
\* and a run that completes has written exactly 24 lines, in slot order.
C28_LinesWrittenEqualClicks ==
    pos_pc \in { "cal_1", "cal_2", "cal_1_done", "cal_2_done" } =>
        /\ written = current_click
        /\ current_click = 24 =>
              \A g \in 1..24 :
                  PointOfLine(CalFile, Len(CalFile.tokens) \div 2 - 24 + g)
                      = clicked_points[g]

-----------------------------------------------------------------------------
(* ArduinoStyleDetection: its public methods called in any order, one after  *)
(* the other                                                                 *)

\* char face_assign[6]
face_assign == << "U", "R", "F", "D", "L", "B" >>

\* std::vector<int> hard_facets
hard_facets ==
    { 0, 2, 6, 8, 9, 11, 15, 17, 18, 20, 24, 26,
      27, 29, 33, 35, 36, 38, 42, 44, 45, 47, 51, 53 }

\* bool isHardFacet(int facet_index)
isHardFacet(facet_index) == facet_index \in hard_facets

Abs(a) == IF a < 0 THEN 0 - a ELSE a

\* int calculateColorDistance(int r, int g, int b, int face_index)
calculateColorDistance(colors, r, g, b, face_index) ==
    Abs(colors[face_index + 1][1] - r) + Abs(colors[face_index + 1][2] - g)
        + Abs(colors[face_index + 1][3] - b)

\* int findClosestColor(int r, int g, int b): the first index of least distance
findClosestColor(colors, r, g, b) ==
    CHOOSE n \in 0..5 :
        /\ \A m \in 0..5 : calculateColorDistance(colors, r, g, b, n)
                              <= calculateColorDistance(colors, r, g, b, m)
        /\ \A m \in 0..(n - 1) : calculateColorDistance(colors, r, g, b, m)
                                    > calculateColorDistance(colors, r, g, b, n)

\* char applyColorDisambiguation(int min_color, int r, int g, int b): its six
\* rules, each applied to the index the rule before it left
applyColorDisambiguation(min_color, r, g, b) ==
    LET c1 == IF min_color = 0 \/ min_color = 3 THEN (IF b > g THEN 0 ELSE 3) ELSE min_color
        c2 == IF c1 = 3 \/ c1 = 5 THEN (IF g < 170 THEN 3 ELSE 5) ELSE c1
        c3 == IF c2 = 2 \/ c2 = 4 THEN (IF g > b THEN 2 ELSE 4) ELSE c2
        c4 == IF c3 = 0 \/ c3 = 4 THEN (IF r > b THEN 0 ELSE 4) ELSE c3
        c5 == IF c4 = 0 /\ r < 120 THEN 4 ELSE c4
        c6 == IF c5 = 0 /\ b < 180 THEN 5 ELSE c5
    IN  face_assign[c6 + 1]

\* bool validateCubeConfiguration(const std::array<char, 54>& cube_state)
validateCubeConfiguration(state) ==
    \A j \in 1..6 : Cardinality({ n \in 1..54 : state[n] = face_assign[j] }) = 9

\* Phase 1 of detectCube for one facet: what cube_state[facet_index] holds
\* after the iteration, having held '?' before
EasyFacet(points_1, points_2, colors, f1, f2, facet_index) ==
    LET face == facet_index \div 9
        facet == facet_index % 9
        points == IF face % 2 = 1 THEN points_2 ELSE points_1
        frame == IF face % 2 = 1 THEN f2 ELSE f1
        point_index == face * 9 + facet
    IN  IF facet = 4 \/ isHardFacet(facet_index) THEN "?"
        ELSE IF ~ (point_index < Len(points)) THEN "?"
        ELSE LET x == points[point_index + 1].x
                 y == points[point_index + 1].y
             IN  IF ~ (x >= 0 /\ x < frame.cols /\ y >= 0 /\ y < frame.rows) THEN "?"
                 ELSE LET bgr_pixel == frame.at[<< x, y >>]
                          r == bgr_pixel[3]
                          g == bgr_pixel[2]
                          b == bgr_pixel[1]
                      IN  applyColorDisambiguation(findClosestColor(colors, r, g, b),
                                                   r, g, b)

\* cube_state[4] = face_assign[0]; ... cube_state[49] = face_assign[5];
SetCenters(state) ==
    [ n \in 1..54 |-> IF (n - 1) % 9 = 4 THEN face_assign[(n - 1) \div 9 + 1] ELSE state[n] ]

\* Phase 2 of detectCube, leaving the hard facets as Phase 1 left them
MarkHardFacets_Skip(state) == state

\* Phase 2 of detectCube:
\* for (int hard_facet : hard_facets) if (cube_state[hard_facet] == '?') cube_state[hard_facet] = 'X';
MarkHardFacets(state) ==
    [ n \in 1..54 |-> IF isHardFacet(n - 1) /\ state[n] = "?" THEN "X" ELSE state[n] ]

\* int detectCube(frame1, frame2, cube_state): the array it leaves and the value
\* it returns, given the array and the object it found
detectCube(points_1, points_2, colors, f1, f2, state) ==
    IF points_1 = << >> \/ points_2 = << >>
    THEN [ cube_state |-> state, result |-> 0 ]
    ELSE LET easy == [ n \in 1..54 |->
                         EasyFacet(points_1, points_2, colors, f1, f2, n - 1) ]
             final == MarkHardFacets(SetCenters(easy))
         IN  [ cube_state |-> final,
               result |-> IF validateCubeConfiguration(final) THEN 1 ELSE 0 ]

\* what std::array<char, 54> cube_state; may hold at its declaration
IndeterminateArrays == { [ n \in 1..54 |-> NUL ], SolvedCube }

\* reference colours as a calibration may leave them
ReferenceInputs ==
    { default_reference_colors,
      << << 200, 200, 200 >>, << 200, 30, 30 >>, << 30, 200, 30 >>,
         << 200, 30, 30 >>, << 30, 30, 200 >>, << 200, 200, 30 >> >> }

\* frames a camera may deliver: none, 27 white stickers, 27 stickers of two
\* colours, and a frame narrower than the calibrated points
ArduinoFrames ==
    { EmptyMat,
      SceneFrame([ g \in 1..27 |-> "W" ]),
      SceneFrame([ g \in 1..27 |-> IF g % 2 = 0 THEN "R" ELSE "G" ]),
      SceneFrame(<< "W", "R", "G", "O", "B" >>) }

\* position files an ArduinoStyleDetection may be asked to load
ArduinoInputs ==
    { << NoPosFile, NoPosFile >>,
      << PosFile(Lines(24)), PosFile(Lines(24)) >>,
      << PosFile(Lines(27)), PosFile(Lines(27)) >>,
      << PosFile(Lines(27)), PosFile(Lines(26)) >>,
      << PosFile(Lines(54)), PosFile(Lines(54)) >> }

ArduinoInit == PosStart(ArduinoInputs)

\* what no method of the object writes
outsideVars == << asmVars, sessionVars, lutVars, runVars, camVars,
                  pos_1, pos_2, current_click, current_face, current_facelet,
                  clicked_points, written, keys, runs >>

\* arduino_detector.loadPositions("pos_1.txt", "pos_2.txt")
CallLoadPositions ==
    /\ pos_pc = "menu"
    /\ result = -1
    /\ \E r \in { loadPositions(pos_1, pos_2, camera_1_points, camera_2_points) } :
          /\ camera_1_points' = r.camera_1
          /\ camera_2_points' = r.camera_2
          /\ pos_pc' = IF r.ok THEN "ard_ready" ELSE "ard_failed"
    /\ UNCHANGED << reference_colors, frame1, frame2, ard_cube_state, result,
                    outsideVars >>

\* loadColorCalibration or calibrateColors writing reference_colors
CallCalibrateColors ==
    /\ result = -1
    /\ reference_colors = default_reference_colors
    /\ reference_colors' \in ReferenceInputs \ { reference_colors }
    /\ UNCHANGED << camera_1_points, camera_2_points, frame1, frame2,
                    ard_cube_state, result, pos_pc, outsideVars >>

\* camera_1->capture(frame1); camera_2->capture(frame2);
CaptureFrames ==
    /\ result = -1
    /\ frame1' \in ArduinoFrames
    /\ frame2' \in ArduinoFrames
    /\ UNCHANGED << camera_1_points, camera_2_points, reference_colors,
                    ard_cube_state, result, pos_pc, outsideVars >>

\* std::array<char, 54> cube_state;
\* int result = arduino_detector.detectCube(frame1, frame2, cube_state);
CallDetectCube ==
    /\ result = -1
    /\ \E state \in IndeterminateArrays :
          \E r \in { detectCube(camera_1_points, camera_2_points, reference_colors,
                                frame1, frame2, state) } :
              /\ ard_cube_state' = r.cube_state
              /\ result' = r.result
    /\ UNCHANGED << camera_1_points, camera_2_points, reference_colors,
                    frame1, frame2, pos_pc, outsideVars >>

\* the next cube_state and result are declared
NextDetection ==
    /\ result # -1
    /\ result' = -1
    /\ ard_cube_state' = << >>
    /\ UNCHANGED << camera_1_points, camera_2_points, reference_colors,
                    frame1, frame2, pos_pc, outsideVars >>

ArduinoNext ==
    \/ CallLoadPositions
    \/ CallCalibrateColors
    \/ CaptureFrames
    \/ CallDetectCube
    \/ NextDetection

SpecArduino == ArduinoInit /\ [][ArduinoNext]_vars

\* C29 as stated: detectCube never reports success: for any frames, positions
\* and reference colors, all 24 facets listed in hard_facets end as 'X', so
\* validateCubeConfiguration cannot count 9 of every letter and detectCube
\* returns 0.
C29_HardFacetsEndAsX ==
    result # -1 =>
        /\ \A n \in hard_facets : ard_cube_state[n + 1] = "X"
        /\ ~ validateCubeConfiguration(ard_cube_state)
        /\ result = 0

\* C29, amended: detectCube never reports success: for any frames and
\* reference colors it returns 0; when both position lists are non-empty all
\* 24 facets listed in hard_facets end as 'X', so validateCubeConfiguration
\* cannot count 9 of every letter; when a position list is empty it returns
\* before it writes cube_state.
C29_NeverReportsSuccess ==
    result # -1 =>
        /\ result = 0
        /\ (camera_1_points # << >> /\ camera_2_points # << >>) =>
              /\ \A n \in hard_facets : ard_cube_state[n + 1] = "X"
              /\ ~ validateCubeConfiguration(ard_cube_state)
        /\ (camera_1_points = << >> \/ camera_2_points = << >>) =>
              ard_cube_state \in IndeterminateArrays

\* detectCube has returned from frames that show every calibrated point, with
\* calibrated reference colours: the centres are set, the hard facets are 'X',
\* an edge facet with a calibrated point holds a letter and one without holds '?'
C29_Witness ==
    /\ result = 0
    /\ Len(camera_1_points) = 27
    /\ Len(camera_2_points) = 27
    /\ frame1.cols = 27
    /\ frame2.cols = 27
    /\ reference_colors # default_reference_colors
    /\ ard_cube_state[5] = "U"
    /\ ard_cube_state[1] = "X"
    /\ ard_cube_state[2] \in { face_assign[j] : j \in 1..6 }
    /\ ard_cube_state[29] = "?"

=============================================================================
